---- MODULE Spec2Model ----
(***************************************************************************)
(* Model of the Google Drive metadata sync of meta-drive:                  *)
(*   - GoogleDriveSyncService.startSync  (GET /api/drive/sync?action=start)*)
(*   - the POST /api/drive/sync handler  (GoogleDriveService + helpers)    *)
(*   - the PostgreSQL store they share (DriveFile, DrivePermission)        *)
(* against a remote catalog (Drive files.list / permissions.list).         *)
(***************************************************************************)
EXTENDS Integers, Sequences, FiniteSets, TLC

(***************************************************************************)
(* Bounds of the model.                                                    *)
(***************************************************************************)
\* files.list page length of startSync (pageSize: 100 in the source), scaled
\* down so that a catalog of Cardinality(FileIds) entries spans several pages.
pageSize == 1
\* files.list page length of listAllFiles (pageSize: 1000 in the source),
\* scaled down; it stays larger than pageSize as in the source.
listAllPageSize == 2
\* entries per transaction of processFilesBatch (batchSize = 10 in the
\* source), scaled down so that a catalog spans several batches.
batchSize == 2
\* how many times the remote catalog changes during one behaviour
MaxRemoteChanges == 1
\* how many POST requests arrive during one behaviour
MaxPosts == 1
\* the largest catalog whose progress events are followed, in pages of 100
MaxPages == 13
\* the pings of the keep-alive timer of a stream that are followed
MaxPings == 1
\* the clicks on Start Sync and the errors of the event stream of the Sync
\* page that are followed
MaxStarts == 2
MaxStreamErrors == 2

(***************************************************************************)
(* Program constants.                                                      *)
(***************************************************************************)
\* "size" INTEGER: the largest value the DriveFile.size column can hold,
\* 2^31 - 1 bytes.  Sizes are counted in KiB in the model (the model's
\* integers are 32 bits wide themselves): 2097151 KiB is the limit.
MaxSizeKiB == 2097151

\* pageSize: 100 of files.list, in the counting and in the fetch loop, where
\* progress is followed over catalogs of real sizes
DrivePageSize == 100

\* const batchSize = 10, where progress is followed over catalogs of real sizes
TransactionSize == 10

FileIds == {"A", "B", "C"}
\* the order in which files.list returns entries
FileOrder == <<"A", "B", "C">>
PermIds == {"p1", "p2"}
Runs == {"r1", "r2"}
\* the SSE clients of ?action=progress, one stream each
Clients == {"c1", "c2"}
\* the event names of driveSyncEmitter
EventNames == {"progress", "sync_start", "sync_complete", "sync_error"}

FolderMime == "application/vnd.google-apps.folder"
\* JS null in a string column / a number column / the parents column
Null == "<null>"
NullNum == -1
NullSeq == <<"<null>">>

(***************************************************************************)
(* The remote catalog: Schema$File and Schema$Permission records.  An      *)
(* absent (undefined) string field is "", an absent number is NullNum, an  *)
(* absent parents array is NullSeq.                                        *)
(***************************************************************************)
ApiFile(id, name, mime, parents, size, mtime, trashed) ==
    [id |-> id, name |-> name, mimeType |-> mime, parents |-> parents,
     size |-> size, createdTime |-> 1, modifiedTime |-> mtime, trashed |-> trashed]

\* the shapes a remote entry takes in the main specification
\* plain; modified later; too large for the size column; moved to the trash
Profiles == {"v1", "v2", "big", "trashed"}
ProfileFile(id, prof) ==
    CASE prof = "v1"  -> ApiFile(id, "doc", "text/plain", <<"root">>, 5, 1, FALSE)
      [] prof = "v2"  -> ApiFile(id, "doc", "text/plain", <<"root">>, 5, 2, FALSE)
      [] prof = "big" -> ApiFile(id, "doc", "text/plain", <<"root">>, 3000000, 1, FALSE)
      [] prof = "trashed" -> ApiFile(id, "doc", "text/plain", <<"root">>, 5, 1, TRUE)

ApiPerm(id, type, role) ==
    [id |-> id, type |-> type, role |-> role, emailAddress |-> "",
     domain |-> "", allowFileDiscovery |-> FALSE]

\* an || that never takes its right side
LeftOnly(x, y) == x

\* x || y of JavaScript on strings: the empty (or absent) string is falsy
OrElse(x, y) == IF x = "" THEN y ELSE x

RECURSIVE Join(_)
\* Array.prototype.join(',')
Join(s) ==
    IF Len(s) = 0 THEN ""
    ELSE IF Len(s) = 1 THEN s[1]
    ELSE s[1] \o "," \o Join(Tail(s))

\* allFiles.map(...) of syncDriveFilesWithPagination: Schema$File -> DriveFileData
ToDriveFileData(file) ==
    [id |-> file.id,
     name |-> OrElse(file.name, "Untitled"),
     mimeType |-> OrElse(file.mimeType, Null),
     parents |-> file.parents,
     size |-> file.size,
     createdTime |-> file.createdTime,
     modifiedTime |-> file.modifiedTime,
     trashed |-> file.trashed,
     isFolder |-> (file.mimeType = FolderMime)]

\* driveFileData of processFilesBatch: DriveFileData -> DriveFile row
ToDriveFileRow(fileData) ==
    [id |-> fileData.id,
     name |-> fileData.name,
     mimeType |-> fileData.mimeType,
     parents |-> IF fileData.parents = NullSeq THEN Null ELSE Join(fileData.parents),
     size |-> fileData.size,
     modifiedTime |-> fileData.modifiedTime,
     createdTime |-> fileData.createdTime,
     isFolder |-> fileData.isFolder,
     trashed |-> fileData.trashed]

\* drivePermissionData of syncAllPermissions: Schema$Permission -> DrivePermission row
ToDrivePermissionRow(permission, fileId) ==
    [id |-> permission.id,
     fileId |-> fileId,
     type |-> OrElse(permission.type, "user"),
     role |-> OrElse(permission.role, "reader"),
     emailAddress |-> OrElse(permission.emailAddress, Null),
     domain |-> OrElse(permission.domain, Null),
     allowFileDiscovery |-> permission.allowFileDiscovery]

\* { ...existing, ...data }: the keys of existing in their order, then the new
\* keys of data; the values of data win
Spread(existing, data) ==
    [k \in (DOMAIN existing) \cup (DOMAIN data) |->
        IF k \in DOMAIN data THEN data[k] ELSE existing[k]]

\* hasChanges: JSON.stringify(existing) !== JSON.stringify({...existing, ...data})
HasChanges(existing, data) == existing # Spread(existing, data)

(***************************************************************************)
(* The persistence layer: DriveFile and DrivePermission tables, each a     *)
(* function from the primary keys present to the rows.                     *)
(***************************************************************************)
\* "size" INTEGER: a value beyond 32 bits is rejected by create and update
FileWriteFails(row) == row.size > MaxSizeKiB

\* a DrivePermission table without the foreign key on fileId
NoForeignKey(files, row) == FALSE

\* DrivePermission_fileId_fkey: FOREIGN KEY ("fileId") REFERENCES "DriveFile"("id")
PermWriteFails(files, row) == row.fileId \notin DOMAIN files

\* tx.driveFile.create / tx.driveFile.update: the table with the row written
PutRow(table, row) ==
    [k \in (DOMAIN table) \cup {row.id} |-> IF k = row.id THEN row ELSE table[k]]

\* deleteMany({ where: { id: { in: ids } } })
DeleteRows(table, ids) == [k \in (DOMAIN table) \ ids |-> table[k]]

\* ON DELETE CASCADE: the permissions left when the files `ids` are deleted
CascadePerms(perms, ids) ==
    DeleteRows(perms, {p \in DOMAIN perms : perms[p].fileId \in ids})

\* findMany({ where: { fileId: { notIn: fileIds } } }) on DrivePermission
PermsNotIn(perms, fileIds) == {p \in DOMAIN perms : perms[p].fileId \notin fileIds}

NoRows == [k \in {} |-> 0]

(***************************************************************************)
(* files.list and permissions.list of the remote catalog.                  *)
(***************************************************************************)
\* the ids files.list returns for q = 'trashed = false'
ListedIds(cat) == {f \in DOMAIN cat.files : ~cat.files[f].trashed}

\* the full listing, in the catalog's order
Listing(cat) ==
    LET listed(f) == f \in ListedIds(cat)
        ids == SelectSeq(FileOrder, listed)
    IN  [i \in 1..Len(ids) |-> cat.files[ids[i]]]

Min(a, b) == IF a <= b THEN a ELSE b

\* one files.list call: the page of at most `size` entries after `token`
\* entries, and the nextPageToken (0: none)
ListPage(cat, token, size) ==
    LET all == Listing(cat)
        last == Min(token + size, Len(all))
    IN  [files |-> SubSeq(all, token + 1, last),
         nextPageToken |-> IF last < Len(all) THEN last ELSE 0]

PermOrder == <<"p1", "p2", "p3", "p4", "p5", "p6">>

\* the Schema$Permission the catalog holds for a grant id
PermOf(p) ==
    IF p = "p1" THEN ApiPerm(p, "user", "writer") ELSE ApiPerm(p, "", "")

\* permissions.list({ fileId }) throws: the file is gone (404) or the service
\* account may not read its permissions (403)
ListFails(cat, fileId) == fileId \notin DOMAIN cat.files \/ fileId \in cat.denied

\* a listing that returns the first grant of the file only
FirstPermissionOnly(cat, fileId) ==
    LET listed(p) == p \in cat.perms[fileId]
        ids == SelectSeq(PermOrder, listed)
    IN  [i \in 1..Min(1, Len(ids)) |-> PermOf(ids[i])]

\* the body of a successful permissions.list({ fileId })
ListPermissions(cat, fileId) ==
    LET listed(p) == p \in cat.perms[fileId]
        ids == SelectSeq(PermOrder, listed)
    IN  [i \in 1..Len(ids) |-> PermOf(ids[i])]

(***************************************************************************)
(* State.                                                                  *)
(***************************************************************************)
VARIABLES
    remote,         \* the remote catalog: [files, perms, denied]
    remoteChanges,  \* how many times the catalog has changed
    dbFiles,        \* table DriveFile
    dbPerms,        \* table DrivePermission
    scanOrder,      \* the order in which an unordered findMany on DriveFile
                    \* returns the rows
    svc,            \* per run: the GoogleDriveSyncService instance and the
                    \* locals of its running startSync
    post,           \* the POST handler: its position and locals
    quiet,          \* the run that completed last with no request since
    rangeCheck,     \* who rejects a size beyond 32 bits: the "client", before
                    \* the statement is sent, or the "database"
    progress,       \* the progress events of a run over a catalog given by
                    \* its size alone
    driveSyncEmitter, \* per event name, the listeners registered with on(),
                    \* in the order of registration; a listener is named by
                    \* the SSE client whose stream it writes to
    streams,        \* per SSE client: the state of its ReadableStream, the
                    \* messages enqueued and its keep-alive timer
    syncPage        \* the Sync page: isSyncing, currentPhase, its EventSource,
                    \* its pending reconnection timers

storeVars == <<remote, remoteChanges, dbFiles, dbPerms, scanOrder, svc, post, quiet,
               rangeCheck>>

eventVars == <<driveSyncEmitter, streams>>

vars == <<storeVars, progress, eventVars, syncPage>>

RangeChecks == {"client", "database"}

\* a statement the database rejects aborts its transaction: every later
\* statement of the transaction throws and the commit rolls back
SizeErrorAborts == rangeCheck = "database"

\* a GoogleDriveSyncService before startSync is called on it
NewService ==
    [pc |-> "idle",
     totalFiles |-> 0, processedFiles |-> 0,
     totalPermissions |-> 0, processedPermissions |-> 0, errors |-> 0,
     \* locals of getTotalFileCount / syncDriveFilesWithPagination
     totalCount |-> 0, pageToken |-> 0, allFiles |-> <<>>,
     \* locals of processFilesBatch
     batchIndex |-> 0,
     \* locals of syncAllPermissions
     permFiles |-> <<>>, permIndex |-> 0, processedPermissionIds |-> {},
     \* locals of cleanupOrphanedData
     allFileIds |-> {},
     \* bookkeeping of the run, read by the properties only
     outcome |-> NoRows, listFailed |-> {}, granted |-> {}, fileErrors |-> 0,
     writes |-> 0,
     deleted |-> 0, fetchedAll |-> FALSE, overlapped |-> FALSE,
     startChanges |-> 0, after |-> "none",
     \* what made startSync throw, the sync_complete and sync_error events
     \* it has broadcast, the phases it has entered
     failure |-> "none", terminal |-> <<>>, phases |-> <<>>,
     \* the clients whose listeners were registered, their streams open,
     \* when startSync was called
     audience |-> {},
     \* the ids of the batches whose transactions have been run, in the
     \* order they were run
     batches |-> <<>>]

Active(r) == svc[r].pc \notin {"idle", "complete", "error"}

\* startSync has returned or thrown: its locals are gone, the counters of the
\* service and the bookkeeping stay
Returned(s, pc) ==
    [s EXCEPT !.pc = pc, !.totalCount = 0, !.pageToken = 0, !.allFiles = <<>>,
              !.batchIndex = 0, !.permFiles = <<>>, !.permIndex = 0,
              !.processedPermissionIds = {}, !.allFileIds = {}]

(***************************************************************************)
(* driveSyncEmitter and the broadcast functions of sync-events.ts.         *)
(***************************************************************************)
NoStats ==
    [totalFiles |-> 0, processedFiles |-> 0, totalPermissions |-> 0,
     processedPermissions |-> 0, errors |-> 0]

\* a message of the event stream, or the argument of a listener; run names
\* the run that broadcast it, which the message itself does not carry
Message(type, run) ==
    [type |-> type, run |-> run, total |-> 0, done |-> 0, stats |-> NoStats,
     error |-> ""]

\* the stream of a client that has not connected
NoStream ==
    [state |-> "none", queue |-> <<>>, keepAlive |-> FALSE, pings |-> 0,
     \* bookkeeping, read by the properties only: an event was published
     \* while the listeners of the client were registered and did not reach
     \* them; a ping was due on the cancelled stream
     missed |-> FALSE, pingFailed |-> FALSE]

\* the listeners an emit has not called
Skipped(st, listeners) ==
    [c \in Clients |->
        IF \E i \in DOMAIN listeners : listeners[i] = c
        THEN [st[c] EXCEPT !.missed = TRUE] ELSE st[c]]

RECURSIVE Deliver(_, _, _)
\* EventEmitter.emit calls the listeners one after the other in the order of
\* their registration; a listener writes the message with
\* controller.enqueue, which throws on a stream that is no longer readable;
\* what a listener throws ends the emit and reaches its caller
Deliver(listeners, st, message) ==
    IF Len(listeners) = 0 THEN [streams |-> st, threw |-> FALSE]
    ELSE LET c == Head(listeners)
         IN  IF st[c].state = "open"
             THEN Deliver(Tail(listeners),
                          [st EXCEPT ![c].queue = Append(@, message)], message)
             ELSE [streams |-> Skipped(st, Tail(listeners)), threw |-> TRUE]

\* the clients with a listener of the event and a stream that takes messages
Listening(name) ==
    {c \in Clients : /\ \E i \in DOMAIN driveSyncEmitter[name] : driveSyncEmitter[name][i] = c
                     /\ streams[c].state = "open"}

\* what a step of run r broadcasts goes through bus: the streams, whether
\* the last emit threw, the terminal events broadcast so far
Bus(r) == [run |-> r, streams |-> streams, threw |-> FALSE, sent |-> svc[r].terminal]

\* driveSyncEmitter.emit(name, message)
Emit(bus, name, message) ==
    LET d == Deliver(driveSyncEmitter[name], bus.streams, message)
    IN  [bus EXCEPT !.streams = d.streams, !.threw = d.threw]

\* broadcastProgress({ type, total, done, ... })
BroadcastProgress(bus, type, total, done) ==
    Emit(bus, "progress", [Message(type, bus.run) EXCEPT !.total = total, !.done = done])

\* broadcastSyncComplete(stats)
BroadcastSyncComplete(bus, stats) ==
    LET message == [Message("sync_complete", bus.run) EXCEPT !.stats = stats]
    IN  Emit([bus EXCEPT !.sent = Append(@, message)], "sync_complete", message)

\* broadcastSyncError(errorMessage)
BroadcastSyncError(bus, errorMessage) ==
    LET message == [Message("sync_error", bus.run) EXCEPT !.error = errorMessage]
    IN  Emit([bus EXCEPT !.sent = Append(@, message)], "sync_error", message)

\* getSyncStats, without the processing time
GetSyncStats(s) ==
    [totalFiles |-> s.totalFiles, processedFiles |-> s.processedFiles,
     totalPermissions |-> s.totalPermissions,
     processedPermissions |-> s.processedPermissions, errors |-> s.errors]

\* the messages of the errors that reach the catch of startSync
ErrorMessages ==
    [fetch |-> "files.list failed", transaction |-> "transaction failed",
     broadcast |-> "Invalid state: Controller is already closed"]

\* a catch that swallows the error and goes on with the permissions
CatchAndContinue(s, bus, failure) ==
    [svc |-> [s EXCEPT !.failure = failure, !.pc = "perms"], streams |-> bus.streams]

\* the catch of startSync: broadcastSyncError(errorMessage); throw error.
\* The result is the service after startSync has thrown, and the streams.
StartSyncCatch(s, bus, failure) ==
    LET b == BroadcastSyncError(bus, ErrorMessages[failure])
    IN  [svc |-> Returned([s EXCEPT !.failure = failure, !.terminal = b.sent,
                                    !.phases = Append(@, "Errored")], "error"),
         streams |-> b.streams]

\* the phase an unfinished startSync is in
Phase(pc) ==
    CASE pc = "count" -> "Counting"
      [] pc = "fetch" -> "Fetching"
      [] pc = "persist" -> "Persisting"
      [] pc \in {"perms", "permsLoop"} -> "SyncingGrants"
      [] pc \in {"cleanup", "cleanupDelete"} -> "Pruning"

\* startSync goes on at pc; called notes the functions it has called on the
\* way that had nothing to do
Enter(s, called, pc) ==
    [s EXCEPT !.pc = pc,
              !.phases = IF Phase(pc) = Phase(s.pc) THEN @
                         ELSE @ \o called \o <<Phase(pc)>>]

(***************************************************************************)
(* processFilesBatch: one entry inside the batch transaction.              *)
(***************************************************************************)
\* a reconciler that compares name, type, parents and size only
FileDecisionWithoutTimes(files, fileData) ==
    LET row == ToDriveFileRow(fileData)
        same(k) == files[fileData.id][k] = row[k]
    IN  IF fileData.id \in DOMAIN files
        THEN IF same("name") /\ same("mimeType") /\ same("parents") /\ same("size")
             THEN "skip" ELSE "update"
        ELSE "create"

\* what the reconciler does with one incoming entry, given the table
FileDecision(files, fileData) ==
    IF fileData.id \in DOMAIN files
    THEN IF HasChanges(files[fileData.id], ToDriveFileRow(fileData))
         THEN "update" ELSE "skip"
    ELSE "create"

\* the body of `for (const fileData of batch)`: acc is [files, aborted,
\* processedFiles, errors, writes, outcome, totalFiles, bus]; outcome notes,
\* per entry, the existingFile that findUnique returned, the data, the
\* decision and whether the write threw; a broadcast that throws is caught
\* as an error of the entry, after its write and its count
ProcessFile(acc, fileData) ==
    LET row == ToDriveFileRow(fileData)
        d == IF acc.aborted THEN "none" ELSE FileDecision(acc.files, fileData)
        failed == acc.aborted \/ (d # "skip" /\ FileWriteFails(row))
        existing == IF fileData.id \in DOMAIN acc.files
                    THEN <<acc.files[fileData.id]>> ELSE <<>>
        o == [existing |-> existing, data |-> row, decision |-> d, failed |-> failed]
        noted == [k \in (DOMAIN acc.outcome) \cup {fileData.id} |->
                     IF k = fileData.id THEN o ELSE acc.outcome[k]]
        bus == BroadcastProgress(acc.bus, "file_processed", acc.totalFiles,
                                 acc.processedFiles + 1)
    IN  IF failed
        THEN [acc EXCEPT !.errors = @ + 1, !.outcome = noted,
                         !.aborted = @ \/ SizeErrorAborts]
        ELSE [acc EXCEPT !.files = IF d = "skip" THEN @ ELSE PutRow(@, row),
                         !.processedFiles = @ + 1,
                         !.writes = IF d = "skip" THEN @ ELSE @ + 1,
                         !.outcome = noted,
                         !.bus = bus,
                         !.errors = IF bus.threw THEN @ + 1 ELSE @]

RECURSIVE ProcessBatch(_, _)
\* prisma.$transaction(async (tx) => { for (const fileData of batch) ... })
ProcessBatch(acc, batch) ==
    IF Len(batch) = 0 THEN acc
    ELSE ProcessBatch(ProcessFile(acc, Head(batch)), Tail(batch))

\* a slice that takes one entry more: files.slice(i, i + batchSize + 1)
BatchOneMore(files, batchIndex) ==
    SubSeq(files, batchIndex * batchSize + 1,
           Min((batchIndex + 1) * batchSize + 1, Len(files)))

\* batches[batchIndex] of files.slice(i, i + batchSize)
BatchAt(files, batchIndex) ==
    SubSeq(files, batchIndex * batchSize + 1,
           Min((batchIndex + 1) * batchSize, Len(files)))

(***************************************************************************)
(* syncAllPermissions: the permissions of one file inside its transaction. *)
(***************************************************************************)
PermDecision(perms, row) ==
    IF row.id \in DOMAIN perms
    THEN IF HasChanges(perms[row.id], row) THEN "update" ELSE "skip"
    ELSE "create"

\* a loop body that does not skip the grants already processed in this run
ProcessPermissionNoDedupe(acc, permission, fileId) ==
    LET row == ToDrivePermissionRow(permission, fileId)
        d == PermDecision(acc.perms, row)
        failed == acc.aborted \/ (d # "skip" /\ PermWriteFails(acc.files, row))
    IN  IF failed THEN [acc EXCEPT !.errors = @ + 1, !.aborted = TRUE]
        ELSE [acc EXCEPT !.perms = IF d = "skip" THEN @ ELSE PutRow(@, row),
                         !.seen = @ \cup {permission.id},
                         !.processedPermissions = @ + 1,
                         !.granted = @ \cup {<<permission.id, fileId>>},
                         !.writes = IF d = "skip" THEN @ ELSE @ + 1]

\* the body of `for (const permission of permissions)`: acc is [perms, files,
\* aborted, seen, processedPermissions, errors, writes, granted]; granted
\* notes the grants put or found under a file; a violation of the foreign key
\* is an error of the database
ProcessPermission(acc, permission, fileId) ==
    LET row == ToDrivePermissionRow(permission, fileId)
        d == PermDecision(acc.perms, row)
        failed == acc.aborted \/ (d # "skip" /\ PermWriteFails(acc.files, row))
    IN  IF permission.id \in acc.seen THEN acc
        ELSE IF failed THEN [acc EXCEPT !.errors = @ + 1, !.aborted = TRUE]
        ELSE [acc EXCEPT !.perms = IF d = "skip" THEN @ ELSE PutRow(@, row),
                         !.seen = @ \cup {permission.id},
                         !.processedPermissions = @ + 1,
                         !.granted = @ \cup {<<permission.id, fileId>>},
                         !.writes = IF d = "skip" THEN @ ELSE @ + 1]

RECURSIVE ProcessPermissions(_, _, _)
ProcessPermissions(acc, permissions, fileId) ==
    IF Len(permissions) = 0 THEN acc
    ELSE ProcessPermissions(ProcessPermission(acc, Head(permissions), fileId),
                            Tail(permissions), fileId)

(***************************************************************************)
(* An unordered findMany returns the rows in an order the database picks;  *)
(* the order stays the same for as long as the table is not written.       *)
(***************************************************************************)
Orders(ids) ==
    {o \in [1..Cardinality(ids) -> ids] : \A i, j \in DOMAIN o : i # j => o[i] # o[j]}

\* the table after a transaction: a written table may come back in any order
Rescan(files) ==
    IF files = dbFiles THEN scanOrder' = scanOrder
    ELSE scanOrder' \in Orders(DOMAIN files)

PostActive == post.pc # "idle"

\* the runs and requests in progress other than run r
OthersActive(r) == PostActive \/ \E o \in Runs \ {r} : Active(o)

(***************************************************************************)
(* GET /api/drive/sync?action=start: handleStartSync creates a service and *)
(* calls startSync on it without awaiting it.                              *)
(***************************************************************************)
\* handleStartSync starts a run on a new service whatever else is running;
\* the services are numbered in the order of their requests
MayStart(r) == svc[r].pc = "idle" /\ (r = "r2" => svc["r1"].pc # "idle")

\* one service of the module for all the requests: its counters go on from
\* where the run before left them
SharedService(r) ==
    IF r = "r1" THEN svc[r]
    ELSE [svc[r] EXCEPT !.totalFiles = svc["r1"].totalFiles,
                        !.processedFiles = svc["r1"].processedFiles,
                        !.totalPermissions = svc["r1"].totalPermissions,
                        !.processedPermissions = svc["r1"].processedPermissions,
                        !.errors = svc["r1"].errors]

\* const syncService = new GoogleDriveSyncService(): the service of request
\* r, created for it
ServiceOf(r) == svc[r]

StartSync(r) ==
    /\ MayStart(r)
    /\ svc' = [o \in Runs |->
                 IF o = r
                 THEN [ServiceOf(r) EXCEPT !.pc = "count",
                                     !.phases = <<"Counting">>,
                                     !.audience = Listening("sync_start"),
                                     !.overlapped = OthersActive(r),
                                     !.startChanges = remoteChanges,
                                     !.after = quiet]
                 ELSE IF Active(o) THEN [svc[o] EXCEPT !.overlapped = TRUE]
                 ELSE svc[o]]
    /\ post' = IF PostActive THEN [post EXCEPT !.overlapped = TRUE] ELSE post
    /\ quiet' = "none"
    /\ UNCHANGED <<eventVars, progress, syncPage, rangeCheck, remote, remoteChanges, dbFiles, dbPerms, scanOrder>>

(***************************************************************************)
(* getTotalFileCount: one iteration of the do/while, or its catch.         *)
(***************************************************************************)
CountPage(r) ==
    /\ svc[r].pc = "count"
    /\ LET page == ListPage(remote, svc[r].pageToken, pageSize)
           n == svc[r].totalCount + Len(page.files)
           bus == BroadcastProgress(Bus(r), "page_loaded", n, 0)
           last == page.nextPageToken = 0
       IN  /\ streams' = bus.streams
           /\ svc' = [svc EXCEPT ![r] =
                  IF bus.threw
                  \* the catch of getTotalFileCount: return 0
                  THEN Enter([@ EXCEPT !.totalFiles = 0, !.pageToken = 0], <<>>, "fetch")
                  ELSE Enter([@ EXCEPT !.totalCount = n,
                                       !.pageToken = page.nextPageToken,
                                       !.totalFiles = IF last THEN n ELSE @],
                             <<>>, IF last THEN "fetch" ELSE "count")]
    /\ UNCHANGED <<driveSyncEmitter, progress, syncPage, rangeCheck, remote, remoteChanges, dbFiles, dbPerms, scanOrder, post, quiet>>

\* a startSync that gives up when the count has failed
AbortAfterCountFailure == "error"

\* where startSync goes when files.list throws while counting:
\* getTotalFileCount catches and returns 0, the fetch loop is next
AfterCountFailure == "fetch"

\* files.list throws while counting: catch, return 0
CountFail(r) ==
    /\ svc[r].pc = "count"
    /\ svc' = [svc EXCEPT ![r] =
           IF AfterCountFailure = "fetch"
           THEN Enter([@ EXCEPT !.totalFiles = 0, !.pageToken = 0], <<>>, "fetch")
           ELSE Returned([@ EXCEPT !.failure = "fetch"], AfterCountFailure)]
    /\ UNCHANGED <<eventVars, progress, syncPage, rangeCheck, remote, remoteChanges, dbFiles, dbPerms, scanOrder, post, quiet>>

(***************************************************************************)
(* syncDriveFilesWithPagination: one iteration of the fetch loop.          *)
(***************************************************************************)
\* a startSync that does not call processFilesBatch
SkipPersisting(allFiles) == "perms"

\* where startSync goes when the fetch loop has ended
AfterFetch(allFiles) == IF Len(allFiles) = 0 THEN "perms" ELSE "persist"

FetchPage(r) ==
    /\ svc[r].pc = "fetch"
    /\ LET page == ListPage(remote, svc[r].pageToken, pageSize)
           all == svc[r].allFiles \o page.files
           last == page.nextPageToken = 0
           bus == BroadcastProgress(Bus(r), "page_loaded", svc[r].totalFiles, Len(all))
           \* processFilesBatch is called with the files fetched and has
           \* nothing to do when there are none
           called == IF last /\ Len(all) = 0 THEN <<"Persisting">> ELSE <<>>
           caught == StartSyncCatch(svc[r], bus, "broadcast")
       IN  IF bus.threw
           THEN /\ svc' = [svc EXCEPT ![r] = caught.svc]
                /\ streams' = caught.streams
           ELSE /\ svc' = [svc EXCEPT ![r] =
                       Enter([@ EXCEPT !.allFiles = all,
                                       !.pageToken = page.nextPageToken,
                                       !.fetchedAll = last],
                             called, IF last THEN AfterFetch(all) ELSE "fetch")]
                /\ streams' = bus.streams
    /\ UNCHANGED <<driveSyncEmitter, progress, syncPage, rangeCheck, remote, remoteChanges, dbFiles, dbPerms, scanOrder, post, quiet>>

\* a startSync that goes on to the cleanup when the fetch loop throws
CleanupAfterFetchFailure == "cleanup"

\* where startSync goes when files.list throws in the fetch loop: the catch
\* of startSync broadcasts sync_error and rethrows
AfterFetchFailure == "error"

FetchFail(r) ==
    /\ svc[r].pc = "fetch"
    /\ LET caught == StartSyncCatch(svc[r], Bus(r), "fetch")
       IN  IF AfterFetchFailure = "error"
           THEN /\ svc' = [svc EXCEPT ![r] = caught.svc]
                /\ streams' = caught.streams
           ELSE /\ svc' = [svc EXCEPT ![r] = [@ EXCEPT !.pc = AfterFetchFailure,
                                                       !.failure = "fetch"]]
                /\ streams' = streams
    /\ UNCHANGED <<driveSyncEmitter, progress, syncPage, rangeCheck, remote, remoteChanges, dbFiles, dbPerms, scanOrder, post, quiet>>

(***************************************************************************)
(* processFilesBatch: one batch, in one transaction.                       *)
(***************************************************************************)
DriveFiles(allFiles) == [i \in 1..Len(allFiles) |-> ToDriveFileData(allFiles[i])]

\* the callback of the transaction of batches[batchIndex], run to its end
\* with this.totalFiles = totalFiles
BatchResultWith(r, totalFiles) ==
    ProcessBatch([files |-> dbFiles, aborted |-> FALSE,
                  processedFiles |-> svc[r].processedFiles,
                  errors |-> svc[r].errors,
                  writes |-> svc[r].writes,
                  outcome |-> svc[r].outcome,
                  totalFiles |-> totalFiles,
                  bus |-> Bus(r)],
                 BatchAt(DriveFiles(svc[r].allFiles), svc[r].batchIndex))

BatchResult(r) == BatchResultWith(r, svc[r].totalFiles)

ProcessFilesBatch(r) ==
    /\ svc[r].pc = "persist"
    /\ LET files == DriveFiles(svc[r].allFiles)
           batch == BatchAt(files, svc[r].batchIndex)
           res == BatchResult(r)
           more == (svc[r].batchIndex + 1) * batchSize < Len(files)
           committed == IF res.aborted THEN dbFiles ELSE res.files
       IN  /\ dbFiles' = committed
           /\ Rescan(committed)
           /\ streams' = res.bus.streams
           /\ svc' = [svc EXCEPT ![r] =
                  Enter([@ EXCEPT !.processedFiles = res.processedFiles,
                                  !.errors = res.errors,
                                  !.writes = IF res.aborted THEN @ ELSE res.writes,
                                  !.outcome = res.outcome,
                                  !.fileErrors = res.errors,
                                  !.batches = Append(@, [i \in DOMAIN batch |-> batch[i].id]),
                                  !.batchIndex = @ + 1],
                        <<>>, IF more THEN "persist" ELSE "perms")]
    /\ UNCHANGED <<driveSyncEmitter, progress, syncPage, rangeCheck, remote, remoteChanges, dbPerms, post, quiet>>

\* prisma.$transaction itself throws: at its begin, before the callback has
\* run, or at its commit, after the callback has counted and broadcast the
\* entries of the batch; nothing of the batch is persisted, and the error
\* leaves processFilesBatch for the catch of startSync
TransactionFail(r) ==
    /\ svc[r].pc = "persist"
    /\ \E at \in {"begin", "commit"} :
          LET res == BatchResult(r)
              s == IF at = "begin" THEN svc[r]
                   ELSE [svc[r] EXCEPT !.processedFiles = res.processedFiles,
                                       !.errors = res.errors,
                                       !.outcome = res.outcome,
                                       !.fileErrors = res.errors]
              bus == IF at = "begin" THEN Bus(r) ELSE [res.bus EXCEPT !.threw = FALSE]
              caught == StartSyncCatch(s, bus, "transaction")
          IN  /\ svc' = [svc EXCEPT ![r] = caught.svc]
              /\ streams' = caught.streams
    /\ UNCHANGED <<driveSyncEmitter, progress, syncPage, rangeCheck, remote, remoteChanges, dbFiles, dbPerms, scanOrder, post, quiet>>

(***************************************************************************)
(* syncAllPermissions.                                                     *)
(***************************************************************************)
\* a catch that goes on with the next file without counting the error
ListFailedUncounted(s, fileId, pcNext) ==
    [s EXCEPT !.listFailed = @ \cup {fileId},
              !.permIndex = @ + 1,
              !.pc = pcNext]

\* the catch of a failed permissions.list: the error is counted, the loop
\* goes on with the next file
ListFailed(s, fileId, pcNext) ==
    [s EXCEPT !.errors = @ + 1,
              !.listFailed = @ \cup {fileId},
              !.permIndex = @ + 1,
              !.pc = pcNext]

\* prisma.driveFile.findMany({ select: { id: true } }); this.totalPermissions = 0
SyncAllPermissionsStart(r) ==
    /\ svc[r].pc = "perms"
    /\ svc' = [svc EXCEPT ![r] =
           Enter([@ EXCEPT !.permFiles = scanOrder,
                           !.permIndex = 0,
                           !.totalPermissions = 0],
                 <<>>, IF Len(scanOrder) = 0 THEN "cleanup" ELSE "permsLoop")]
    /\ UNCHANGED <<eventVars, progress, syncPage, rangeCheck, remote, remoteChanges, dbFiles, dbPerms, scanOrder, post, quiet>>

\* one iteration of `for (let i = 0; i < allFiles.length; i++)`: the listing
\* and the transaction, or the catch of a failed listing
SyncPermissionsOfFile(r) ==
    /\ svc[r].pc = "permsLoop"
    /\ LET fileId == svc[r].permFiles[svc[r].permIndex + 1]
           permissions == ListPermissions(remote, fileId)
           res == ProcessPermissions([perms |-> dbPerms, files |-> dbFiles,
                                      aborted |-> FALSE,
                                      granted |-> svc[r].granted,
                                      seen |-> svc[r].processedPermissionIds,
                                      processedPermissions |-> svc[r].processedPermissions,
                                      errors |-> svc[r].errors,
                                      writes |-> svc[r].writes], permissions, fileId)
           pcNext == IF svc[r].permIndex + 1 < Len(svc[r].permFiles)
                     THEN "permsLoop" ELSE "cleanup"
           \* after the transaction; a broadcast that throws is caught by
           \* the catch of the loop body as an error of the file
           bus == BroadcastProgress(Bus(r), "file_processed", Len(svc[r].permFiles),
                                    svc[r].permIndex + 1)
       IN  IF ListFails(remote, fileId)
           THEN /\ svc' = [svc EXCEPT ![r] =
                       Enter(ListFailed(@, fileId, svc[r].pc), <<>>, pcNext)]
                /\ dbPerms' = dbPerms
                /\ streams' = streams
           ELSE /\ svc' = [svc EXCEPT ![r] =
                       Enter([@ EXCEPT
                                 !.totalPermissions = @ + Len(permissions),
                                 !.processedPermissionIds = res.seen,
                                 !.processedPermissions = res.processedPermissions,
                                 !.errors = IF bus.threw THEN res.errors + 1 ELSE res.errors,
                                 !.writes = IF res.aborted THEN @ ELSE res.writes,
                                 !.granted = IF res.aborted THEN @ ELSE res.granted,
                                 !.permIndex = @ + 1],
                             <<>>, pcNext)]
                /\ dbPerms' = IF res.aborted THEN dbPerms ELSE res.perms
                /\ streams' = bus.streams
    /\ UNCHANGED <<driveSyncEmitter, progress, syncPage, rangeCheck, remote, remoteChanges, dbFiles, scanOrder, post, quiet>>

(***************************************************************************)
(* cleanupOrphanedData, then getSyncStats and broadcastSyncComplete.       *)
(***************************************************************************)
\* (await prisma.driveFile.findMany({ select: { id: true } })).map((f) => f.id)
CleanupRead(r) ==
    /\ svc[r].pc = "cleanup"
    /\ svc' = [svc EXCEPT ![r] = Enter([@ EXCEPT !.allFileIds = DOMAIN dbFiles],
                                        <<>>, "cleanupDelete")]
    /\ UNCHANGED <<eventVars, progress, syncPage, rangeCheck, remote, remoteChanges, dbFiles, dbPerms, scanOrder, post, quiet>>

\* drivePermission.findMany({ fileId notIn allFileIds }), deleteMany({ id in ... })
CleanupDelete(r) ==
    /\ svc[r].pc = "cleanupDelete"
    /\ LET orphanedPermissions == PermsNotIn(dbPerms, svc[r].allFileIds)
           s == [svc[r] EXCEPT !.deleted = @ + Cardinality(orphanedPermissions)]
           bus == BroadcastSyncComplete(Bus(r), GetSyncStats(s))
           \* a broadcastSyncComplete that throws is caught by startSync
           caught == StartSyncCatch(s, bus, "broadcast")
       IN  /\ dbPerms' = DeleteRows(dbPerms, orphanedPermissions)
           /\ IF bus.threw
              THEN /\ svc' = [svc EXCEPT ![r] = caught.svc]
                   /\ streams' = caught.streams
                   /\ quiet' = quiet
              ELSE /\ svc' = [svc EXCEPT ![r] =
                          Returned([s EXCEPT !.terminal = bus.sent,
                                             !.phases = Append(@, "Complete")],
                                   "complete")]
                   /\ streams' = bus.streams
                   /\ quiet' = r
    /\ UNCHANGED <<driveSyncEmitter, progress, syncPage, rangeCheck, remote, remoteChanges, dbFiles, scanOrder, post>>

(***************************************************************************)
(* POST /api/drive/sync: GoogleDriveService.syncAllData, then the helpers  *)
(* cleanupOrphanedRecords, syncDriveFiles, syncDrivePermissions and        *)
(* verifyDataIntegrity.                                                    *)
(***************************************************************************)
\* files.map(...) of listAllFiles: Schema$File -> DriveFileData
ListAllFilesData(file) ==
    [id |-> file.id,
     name |-> file.name,
     mimeType |-> OrElse(file.mimeType, Null),
     parents |-> file.parents,
     size |-> file.size,
     createdTime |-> file.createdTime,
     modifiedTime |-> file.modifiedTime,
     trashed |-> file.trashed,
     isFolder |-> (file.mimeType = FolderMime)]

\* listAllFiles: one files.list call; its nextPageToken is not read
ListAllFiles(cat) ==
    LET files == ListPage(cat, 0, listAllPageSize).files
    IN  [i \in 1..Len(files) |-> ListAllFilesData(files[i])]

\* getFilePermissions: [] when permissions.list throws
GetFilePermissions(cat, fileId) ==
    LET permissions == ListPermissions(cat, fileId)
    IN  IF ListFails(cat, fileId) THEN <<>>
        ELSE [i \in 1..Len(permissions) |->
                 [id |-> permissions[i].id,
                  fileId |-> fileId,
                  type |-> permissions[i].type,
                  role |-> permissions[i].role,
                  emailAddress |-> OrElse(permissions[i].emailAddress, Null),
                  domain |-> OrElse(permissions[i].domain, Null),
                  allowFileDiscovery |-> permissions[i].allowFileDiscovery]]

RECURSIVE AllPermissions(_, _)
\* allPermissions.push(...permissions) for each file of syncAllData
AllPermissions(cat, files) ==
    IF Len(files) = 0 THEN <<>>
    ELSE GetFilePermissions(cat, Head(files).id) \o AllPermissions(cat, Tail(files))

\* driveFileData of syncDriveFiles; size || null turns 0 into null
PostDriveFileRow(fileData) ==
    [id |-> fileData.id,
     name |-> OrElse(fileData.name, "Untitled"),
     mimeType |-> fileData.mimeType,
     parents |-> IF fileData.parents = NullSeq THEN Null ELSE Join(fileData.parents),
     size |-> IF fileData.size = 0 THEN NullNum ELSE fileData.size,
     modifiedTime |-> fileData.modifiedTime,
     createdTime |-> fileData.createdTime,
     isFolder |-> fileData.isFolder,
     trashed |-> fileData.trashed]

\* drivePermissionData of syncDrivePermissions
PostDrivePermissionRow(permissionData) ==
    [id |-> permissionData.id,
     fileId |-> permissionData.fileId,
     type |-> OrElse(permissionData.type, "user"),
     role |-> OrElse(permissionData.role, "reader"),
     emailAddress |-> permissionData.emailAddress,
     domain |-> permissionData.domain,
     allowFileDiscovery |-> permissionData.allowFileDiscovery]

\* the write of one row in syncDriveFiles / syncDrivePermissions: acc is
\* [table, aborted, upserted, updated, skipped, errors]
PostUpsert(acc, row, fails, aborts) ==
    LET d == IF row.id \in DOMAIN acc.table
             THEN IF HasChanges(acc.table[row.id], row) THEN "update" ELSE "skip"
             ELSE "create"
    IN  IF acc.aborted THEN [acc EXCEPT !.errors = @ + 1]
        ELSE IF d # "skip" /\ fails
        THEN [acc EXCEPT !.errors = @ + 1, !.aborted = aborts]
        ELSE IF d = "skip" THEN [acc EXCEPT !.skipped = @ + 1]
        ELSE IF d = "update"
        THEN [acc EXCEPT !.table = PutRow(@, row), !.updated = @ + 1]
        ELSE [acc EXCEPT !.table = PutRow(@, row), !.upserted = @ + 1]

RECURSIVE SyncDriveFiles(_, _)
SyncDriveFiles(acc, files) ==
    IF Len(files) = 0 THEN acc
    ELSE LET row == PostDriveFileRow(Head(files))
         IN  SyncDriveFiles(PostUpsert(acc, row, FileWriteFails(row), SizeErrorAborts),
                            Tail(files))

RECURSIVE SyncDrivePermissions(_, _, _)
SyncDrivePermissions(acc, permissions, files) ==
    IF Len(permissions) = 0 THEN acc
    ELSE LET row == PostDrivePermissionRow(Head(permissions))
         IN  SyncDrivePermissions(PostUpsert(acc, row, PermWriteFails(files, row), TRUE),
                                  Tail(permissions), files)

NoCounts == [upserted |-> 0, updated |-> 0, skipped |-> 0, errors |-> 0]

\* the POST handler between two requests
PostIdle ==
    [pc |-> "idle", files |-> <<>>, allPermissions |-> <<>>,
     filesResult |-> NoCounts, permissionsResult |-> NoCounts,
     fileIds |-> {}, orphanedPermissions |-> 0, invalidFileReferences |-> 0,
     status |-> 0, requests |-> 0,
     \* bookkeeping of the request, read by the properties only
     deletedFiles |-> {}, lostLive |-> {}, overlapped |-> FALSE, startChanges |-> 0,
     previous |-> 0]

SeqIds(files) == {files[i].id : i \in DOMAIN files}

\* a POST request arrives, at most max of them being served in all;
\* previous is the status of the response to the request before it
PostRequest(max) ==
    /\ post.pc = "idle"
    /\ post.requests < max
    /\ post' = [PostIdle EXCEPT !.pc = "fetch",
                                !.requests = post.requests + 1,
                                !.overlapped = \E r \in Runs : Active(r),
                                !.startChanges = remoteChanges,
                                !.previous = post.status]
    /\ svc' = [r \in Runs |->
                 IF Active(r) THEN [svc[r] EXCEPT !.overlapped = TRUE] ELSE svc[r]]
    /\ quiet' = "none"
    /\ UNCHANGED <<eventVars, progress, syncPage, rangeCheck, remote, remoteChanges, dbFiles, dbPerms, scanOrder>>

PostStart == PostRequest(MaxPosts)

\* Step 1: driveService.syncAllData(folderId)
PostFetch ==
    /\ post.pc = "fetch"
    /\ LET files == ListAllFiles(remote)
       IN  post' = [post EXCEPT !.files = files,
                                !.allPermissions = AllPermissions(remote, files),
                                !.pc = "cleanup"]
    /\ UNCHANGED <<eventVars, progress, syncPage, rangeCheck, remote, remoteChanges, dbFiles, dbPerms, scanOrder, svc, quiet>>

\* listAllFiles throws 'Failed to fetch files from Google Drive': status 500
PostFetchFail ==
    /\ post.pc = "fetch"
    /\ post' = [post EXCEPT !.pc = "idle", !.status = 500]
    /\ UNCHANGED <<eventVars, progress, syncPage, rangeCheck, remote, remoteChanges, dbFiles, dbPerms, scanOrder, svc, quiet>>

\* Step 2, cleanupOrphanedRecords: the orphaned permissions
PostCleanupPermissions ==
    /\ post.pc = "cleanup"
    /\ dbPerms' = DeleteRows(dbPerms, PermsNotIn(dbPerms, SeqIds(post.files)))
    /\ post' = [post EXCEPT !.pc = "cleanupFiles"]
    /\ UNCHANGED <<eventVars, progress, syncPage, rangeCheck, remote, remoteChanges, dbFiles, scanOrder, svc, quiet>>

\* a cleanup that finds no persisted entry orphaned
NoOrphanedFiles(table, currentFiles) == {}

\* driveFile.findMany({ where: { id: { notIn: currentFileIds } } })
OrphanedFiles(table, currentFiles) == (DOMAIN table) \ SeqIds(currentFiles)

\* Step 2, cleanupOrphanedRecords: the orphaned files; their permissions go
\* with them (ON DELETE CASCADE)
PostCleanupFiles ==
    /\ post.pc = "cleanupFiles"
    /\ LET orphanedFiles == OrphanedFiles(dbFiles, post.files)
           files == DeleteRows(dbFiles, orphanedFiles)
       IN  /\ dbFiles' = files
           /\ Rescan(files)
           /\ dbPerms' = CascadePerms(dbPerms, orphanedFiles)
           /\ post' = [post EXCEPT
                  !.deletedFiles = orphanedFiles,
                  !.lostLive = orphanedFiles \cap ListedIds(remote),
                  !.pc = "syncFiles"]
    /\ UNCHANGED <<eventVars, progress, syncPage, rangeCheck, remote, remoteChanges, svc, quiet>>

\* Step 3: syncDriveFiles(files), one transaction
PostSyncDriveFiles ==
    /\ post.pc = "syncFiles"
    /\ LET res == SyncDriveFiles([table |-> dbFiles, aborted |-> FALSE] @@ NoCounts,
                                  post.files)
           committed == IF res.aborted THEN dbFiles ELSE res.table
       IN  /\ dbFiles' = committed
           /\ Rescan(committed)
           /\ post' = [post EXCEPT
                  !.filesResult = [k \in DOMAIN NoCounts |-> res[k]],
                  !.pc = "syncPermissions"]
    /\ UNCHANGED <<eventVars, progress, syncPage, rangeCheck, remote, remoteChanges, dbPerms, svc, quiet>>

\* Step 4: syncDrivePermissions(allPermissions, files), one transaction
PostSyncDrivePermissions ==
    /\ post.pc = "syncPermissions"
    /\ LET valid(p) == p.fileId \in SeqIds(post.files)
           res == SyncDrivePermissions([table |-> dbPerms, aborted |-> FALSE] @@ NoCounts,
                                       SelectSeq(post.allPermissions, valid), dbFiles)
       IN  /\ dbPerms' = IF res.aborted THEN dbPerms ELSE res.table
           /\ post' = [post EXCEPT
                  !.permissionsResult = [k \in DOMAIN NoCounts |-> res[k]],
                  !.pc = "verify"]
    /\ UNCHANGED <<eventVars, progress, syncPage, rangeCheck, remote, remoteChanges, dbFiles, scanOrder, svc, quiet>>

\* Step 5: verifyDataIntegrity, then the response.  The queries of
\* verifyDataIntegrity write nothing and their results go to the response
\* only: here they are taken together; PostVerifyFileIds to PostVerifyInvalid
\* take them one by one
PostVerify ==
    /\ post.pc = "verify"
    /\ post' = [post EXCEPT
           !.orphanedPermissions = Cardinality(PermsNotIn(dbPerms, DOMAIN dbFiles)),
           !.invalidFileReferences = Cardinality(PermsNotIn(dbPerms, DOMAIN dbFiles)),
           !.status = 200,
           !.pc = "idle"]
    /\ UNCHANGED <<eventVars, progress, syncPage, rangeCheck, remote, remoteChanges, dbFiles, dbPerms, scanOrder, svc, quiet>>

\* Step 5, verifyDataIntegrity: driveFile.findMany({ select: { id: true } })
\* of the first check
PostVerifyFileIds ==
    /\ post.pc = "verify"
    /\ post' = [post EXCEPT !.fileIds = DOMAIN dbFiles, !.pc = "verifyOrphaned"]
    /\ UNCHANGED <<eventVars, progress, syncPage, rangeCheck, remote, remoteChanges, dbFiles, dbPerms, scanOrder, svc, quiet>>

\* Step 5, verifyDataIntegrity: drivePermission.count of the first check
PostVerifyOrphaned ==
    /\ post.pc = "verifyOrphaned"
    /\ post' = [post EXCEPT
           !.orphanedPermissions = Cardinality(PermsNotIn(dbPerms, post.fileIds)),
           !.fileIds = {},
           !.pc = "verifyAgain"]
    /\ UNCHANGED <<eventVars, progress, syncPage, rangeCheck, remote, remoteChanges, dbFiles, dbPerms, scanOrder, svc, quiet>>

\* Step 5, verifyDataIntegrity: allFileIds of the second check
PostVerifyAllFileIds ==
    /\ post.pc = "verifyAgain"
    /\ post' = [post EXCEPT !.fileIds = DOMAIN dbFiles, !.pc = "verifyInvalid"]
    /\ UNCHANGED <<eventVars, progress, syncPage, rangeCheck, remote, remoteChanges, dbFiles, dbPerms, scanOrder, svc, quiet>>

\* Step 5, verifyDataIntegrity: permissionsWithInvalidFiles, then the
\* response
PostVerifyInvalid ==
    /\ post.pc = "verifyInvalid"
    /\ post' = [post EXCEPT
           !.invalidFileReferences = Cardinality(PermsNotIn(dbPerms, post.fileIds)),
           !.fileIds = {},
           !.status = 200,
           !.pc = "idle"]
    /\ UNCHANGED <<eventVars, progress, syncPage, rangeCheck, remote, remoteChanges, dbFiles, dbPerms, scanOrder, svc, quiet>>

(***************************************************************************)
(* The percent of the progress events startSync broadcasts.  A percent is  *)
(* the fraction n/d; 0/0 is NaN and n/0 with n > 0 is Infinity, as the     *)
(* divisions of the code produce them.                                     *)
(***************************************************************************)
Pct(n, d) == [n |-> n, d |-> d]

IsNaN(a) == a.n = 0 /\ a.d = 0

\* a < b of two numbers, false when one of them is NaN
Lower(a, b) ==
    /\ ~IsNaN(a)
    /\ ~IsNaN(b)
    /\ IF a.d = 0 THEN FALSE
       ELSE IF b.d = 0 THEN TRUE
       ELSE a.n * b.d < b.n * a.d

\* Math.min(a, cap)
MathMin(a, cap) == IF IsNaN(a) THEN a ELSE IF Lower(Pct(cap, 1), a) THEN Pct(cap, 1) ELSE a

\* Math.min((totalCount / 1000) * 100, 5)
CountPercent(totalCount) == MathMin(Pct(totalCount * 100, 1000), 5)

\* Math.min((allFiles.length / this.totalFiles) * 60, 60)
PagePercent(loaded, totalFiles) == MathMin(Pct(loaded * 60, totalFiles), 60)

\* Math.min(60 + (this.processedFiles / this.totalFiles) * 35, 95)
FilePercent(processedFiles, totalFiles) ==
    MathMin(Pct(60 * totalFiles + processedFiles * 35, totalFiles), 95)

\* Math.min(95 + (i / allFiles.length) * 5, 100)
PermissionPercent(i, length) == MathMin(Pct(95 * length + i * 5, length), 100)

\* the sizes of the catalogs whose progress is followed
CatalogSizes == {0, 1, 50} \cup {DrivePageSize * h : h \in 1..MaxPages}

NoProgress ==
    [pc |-> "idle", size |-> 0, totalCount |-> 0, totalFiles |-> 0, loaded |-> 0,
     processedFiles |-> 0, i |-> 0,
     \* bookkeeping, read by the properties only: the events broadcast, the
     \* highest percent among them, whether an event came with a lower
     \* percent than an earlier one
     events |-> 0, highest |-> Pct(0, 1), dropped |-> FALSE,
     \* whether an event came with a percent that is NaN, below 0 or above 100
     invalid |-> FALSE,
     \* whether an event came with a percent outside the band of its phase
     outOfBand |-> FALSE,
     \* the phase whose event came last, the currentPhase of a Sync page that
     \* has handled every event
     lastPhase |-> "none", currentPhase |-> "idle"]

\* the share of the progress bar each phase is given: counting, page fetch,
\* persistence of the entries, synchronization of the grants
Bands == [count |-> <<0, 5>>, fetch |-> <<5, 60>>, persist |-> <<60, 95>>, perms |-> <<95, 100>>]

\* lo <= percent <= hi, false for NaN
Within(percent, lo, hi) ==
    /\ ~IsNaN(percent)
    /\ ~Lower(percent, Pct(lo, 1))
    /\ ~Lower(Pct(hi, 1), percent)

\* broadcastProgress({ ..., percent })
Broadcast(p, percent) ==
    [p EXCEPT !.events = @ + 1,
              !.highest = IF Lower(@, percent) THEN percent ELSE @,
              !.dropped = @ \/ Lower(percent, p.highest),
              !.invalid = @ \/ IsNaN(percent) \/ Lower(percent, Pct(0, 1))
                            \/ Lower(Pct(100, 1), percent)]

\* the type of the progress events of each phase
EventType ==
    [count |-> "page_loaded", fetch |-> "page_loaded",
     persist |-> "file_processed", perms |-> "file_processed"]

\* handleProgressEvent of the Sync page: the currentPhase after an event.
\* The percent arrives as JSON, a NaN as null, and null < 60 holds
HandleProgressEvent(currentPhase, type, percent) ==
    CASE type = "sync_start" -> "counting"
      [] type = "page_loaded" -> "loading"
      [] type = "file_processed" ->
            IF IsNaN(percent) \/ Lower(percent, Pct(60, 1))
            THEN "processing" ELSE "permissions"
      [] type = "sync_complete" -> "complete"
      [] type = "sync_error" -> "error"
      [] OTHER -> currentPhase

\* broadcastProgress of the phase `phase`
BroadcastIn(phase, p, percent) ==
    [Broadcast(p, percent) EXCEPT
        !.outOfBand = @ \/ ~Within(percent, Bands[phase][1], Bands[phase][2]),
        !.lastPhase = phase,
        !.currentPhase = HandleProgressEvent(@, EventType[phase], percent)]

\* the next page of files.list with pageSize: 100 over a catalog of that size
PageLength(size, before) == Min(DrivePageSize, size - before)

\* getTotalFileCount: one iteration of the do/while
CountProgress ==
    /\ progress.pc = "count"
    /\ LET totalCount == progress.totalCount + PageLength(progress.size, progress.totalCount)
           last == totalCount >= progress.size
       IN  progress' = BroadcastIn("count", [progress EXCEPT
                                     !.totalCount = totalCount,
                                     !.totalFiles = IF last THEN totalCount ELSE @,
                                     !.pc = IF last THEN "fetch" ELSE "count"],
                                 CountPercent(totalCount))
    /\ UNCHANGED <<storeVars, eventVars, syncPage>>

\* getTotalFileCount: the catch, return 0
CountProgressFail ==
    /\ progress.pc = "count"
    /\ progress' = [progress EXCEPT !.totalFiles = 0, !.pc = "fetch"]
    /\ UNCHANGED <<storeVars, eventVars, syncPage>>

\* syncDriveFilesWithPagination: one iteration of the do/while
PageProgress ==
    /\ progress.pc = "fetch"
    /\ LET loaded == progress.loaded + PageLength(progress.size, progress.loaded)
           last == loaded >= progress.size
       IN  progress' = BroadcastIn("fetch", [progress EXCEPT
                                     !.loaded = loaded,
                                     !.pc = IF ~last THEN "fetch"
                                            ELSE IF loaded = 0 THEN "done" ELSE "persist"],
                                 PagePercent(loaded, progress.totalFiles))
    /\ UNCHANGED <<storeVars, eventVars, syncPage>>

RECURSIVE FilesProgress(_, _)
\* the file_processed events of the next n files of a batch
FilesProgress(p, n) ==
    IF n = 0 THEN p
    ELSE FilesProgress(BroadcastIn("persist", [p EXCEPT !.processedFiles = @ + 1],
                                 FilePercent(p.processedFiles + 1, p.totalFiles)),
                       n - 1)

\* processFilesBatch: one batch of batchSize = 10 files
BatchProgress ==
    /\ progress.pc = "persist"
    /\ LET n == Min(TransactionSize, progress.loaded - progress.processedFiles)
           p == FilesProgress(progress, n)
       IN  progress' = [p EXCEPT !.pc = IF p.processedFiles >= p.loaded
                                        THEN "perms" ELSE "persist"]
    /\ UNCHANGED <<storeVars, eventVars, syncPage>>

\* syncAllPermissions: one iteration of the loop over the persisted files
PermissionProgress ==
    /\ progress.pc = "perms"
    /\ progress' = BroadcastIn("perms", [progress EXCEPT
                                 !.i = @ + 1,
                                 !.pc = IF progress.i + 1 >= progress.loaded
                                        THEN "done" ELSE "perms"],
                             PermissionPercent(progress.i, progress.loaded))
    /\ UNCHANGED <<storeVars, eventVars, syncPage>>

(***************************************************************************)
(* GET /api/drive/sync?action=progress: handleProgressStream.              *)
(***************************************************************************)
\* the streams are numbered in the order of their requests
MayConnect(c) == streams[c].state = "none" /\ (c = "c2" => streams["c1"].state # "none")

\* start(controller): the connect message is enqueued, the four handlers are
\* registered, the keep-alive timer is set
Connect(c) ==
    /\ MayConnect(c)
    /\ streams' = [streams EXCEPT
           ![c] = [NoStream EXCEPT !.state = "open",
                                   !.queue = <<Message("connected", "none")>>,
                                   !.keepAlive = TRUE]]
    /\ driveSyncEmitter' = [name \in EventNames |-> Append(driveSyncEmitter[name], c)]
    /\ UNCHANGED <<storeVars, progress, syncPage>>

\* the client goes away and its stream is cancelled.  The underlying source
\* of the stream has a start() only: the cleanup function that start()
\* returns is called by nobody, the listeners and the timer stay
Disconnect(c) ==
    /\ streams[c].state = "open"
    /\ streams' = [streams EXCEPT ![c].state = "closed"]
    /\ UNCHANGED <<storeVars, progress, syncPage, driveSyncEmitter>>

\* a timer callback that enqueues nothing
TickWithoutPing(st) == [st EXCEPT !.pings = @ + 1]

\* the callback of setInterval(..., 30000) enqueues a ping; pings counts the
\* intervals elapsed
KeepAliveTick(st) ==
    IF st.state = "open"
    THEN [st EXCEPT !.queue = Append(@, Message("ping", "none")), !.pings = @ + 1]
    ELSE [st EXCEPT !.pingFailed = TRUE, !.pings = @ + 1]

\* the keep-alive interval of the stream of client c elapses
KeepAlive(c) ==
    /\ streams[c].keepAlive
    /\ streams[c].pings < MaxPings
    /\ streams' = [streams EXCEPT ![c] = KeepAliveTick(@)]
    /\ UNCHANGED <<storeVars, progress, syncPage, driveSyncEmitter>>

(***************************************************************************)
(* The Sync syncPage.  The server is its environment: the answer to the start  *)
(* request, the messages and the errors of the event stream.               *)
(***************************************************************************)
\* the page after mount
NoPage ==
    [isSyncing |-> FALSE, currentPhase |-> "idle",
     \* null, or the EventSource: open, connecting again after an error (what
     \* the browser does by itself), or failed for good
     eventSource |-> "null",
     \* the pending callbacks of setTimeout(..., 2000)
     timers |-> 0,
     \* the start requests without an answer yet
     starting |-> 0,
     \* bookkeeping, read by the properties only: the clicks on Start Sync,
     \* the errors of the stream, the EventSources constructed, those
     \* constructed by the timer callback
     starts |-> 0, errors |-> 0, opened |-> 0, reconnects |-> 0,
     \* a terminal event has been handled and Start Sync was not clicked since
     settled |-> FALSE,
     \* the stream erred while isSyncing and since then no EventSource was
     \* constructed and isSyncing stayed true
     awaited |-> FALSE]

\* the messages of the event stream, the percent of a progress event
StreamMessages ==
    {[type |-> t, percent |-> Pct(0, 1)] :
        t \in {"connected", "sync_start", "sync_complete", "sync_error", "ping"}}
    \cup {[type |-> "page_loaded", percent |-> PagePercent(1, 2)],
          [type |-> "file_processed", percent |-> FilePercent(1, 2)],
          [type |-> "file_processed", percent |-> PermissionPercent(0, 1)]}

\* a timer callback without its own test of isSyncing
Regardless(p) == TRUE

\* the if (isSyncing) inside the callback of setTimeout
StillSyncing(p) == p.isSyncing

\* connectToProgress(): the EventSource at hand is closed, a new one is made
ConnectToProgress(p) ==
    [p EXCEPT !.eventSource = "open", !.opened = @ + 1, !.awaited = FALSE]

\* startSync() up to its await
PageStart ==
    /\ ~syncPage.isSyncing
    /\ syncPage.starts < MaxStarts
    /\ syncPage' = [syncPage EXCEPT !.isSyncing = TRUE, !.currentPhase = "counting",
                            !.starting = @ + 1, !.starts = @ + 1,
                            !.settled = FALSE]
    /\ UNCHANGED <<storeVars, progress, eventVars>>

\* startSync() after its await: the response is ok
PageStarted ==
    /\ syncPage.starting > 0
    /\ syncPage' = ConnectToProgress([syncPage EXCEPT !.starting = @ - 1])
    /\ UNCHANGED <<storeVars, progress, eventVars>>

\* startSync(): the catch
PageStartFailed ==
    /\ syncPage.starting > 0
    /\ syncPage' = [syncPage EXCEPT !.starting = @ - 1, !.currentPhase = "error",
                            !.isSyncing = FALSE, !.awaited = FALSE]
    /\ UNCHANGED <<storeVars, progress, eventVars>>

\* stopSync(), the button being shown while isSyncing
PageStop ==
    /\ syncPage.isSyncing
    /\ syncPage' = [syncPage EXCEPT !.eventSource = "null", !.isSyncing = FALSE,
                            !.currentPhase = "idle", !.awaited = FALSE]
    /\ UNCHANGED <<storeVars, progress, eventVars>>

\* eventSource.onmessage: handleProgressEvent(data)
PageMessage ==
    /\ syncPage.eventSource = "open"
    /\ \E m \in StreamMessages :
          LET terminal == m.type \in {"sync_complete", "sync_error"}
          IN  syncPage' = [syncPage EXCEPT
                  !.currentPhase = HandleProgressEvent(@, m.type, m.percent),
                  !.isSyncing = IF terminal THEN FALSE ELSE @,
                  !.eventSource = IF terminal THEN "null" ELSE @,
                  !.settled = IF terminal THEN TRUE ELSE @,
                  !.awaited = IF terminal THEN FALSE ELSE @]
    /\ UNCHANGED <<storeVars, progress, eventVars>>

\* eventSource.onerror: the stream is lost, for a while or for good
PageStreamError ==
    /\ syncPage.eventSource \in {"open", "connecting"}
    /\ syncPage.errors < MaxStreamErrors
    /\ \E after \in {"connecting", "failed"} :
          syncPage' = [syncPage EXCEPT !.eventSource = after,
                              !.errors = @ + 1,
                              !.timers = IF syncPage.isSyncing THEN @ + 1 ELSE @,
                              !.awaited = @ \/ syncPage.isSyncing]
    /\ UNCHANGED <<storeVars, progress, eventVars>>

\* eventSource.onopen after an error: the browser has the stream again
PageStreamOpen ==
    /\ syncPage.eventSource = "connecting"
    /\ syncPage' = [syncPage EXCEPT !.eventSource = "open"]
    /\ UNCHANGED <<storeVars, progress, eventVars>>

\* the callback of setTimeout(..., 2000)
PageTimer ==
    /\ syncPage.timers > 0
    /\ syncPage' = IF StillSyncing(syncPage)
               THEN ConnectToProgress([syncPage EXCEPT !.timers = @ - 1,
                                                   !.reconnects = @ + 1])
               ELSE [syncPage EXCEPT !.timers = @ - 1]
    /\ UNCHANGED <<storeVars, progress, eventVars>>

(***************************************************************************)
(* The remote catalog and its changes.                                     *)
(***************************************************************************)
\* the grants a new remote entry is listed with: p1 is shared by every
\* entry, p2 is a grant of C alone
StdPerms(f) == IF f = "C" THEN {"p1", "p2"} ELSE {"p1"}

\* a catalog: the entries S with their shapes, the entries of D refusing to
\* list their grants
Catalog(S, prof, D) ==
    [files |-> [f \in S |-> ProfileFile(f, prof[f])],
     perms |-> [f \in FileIds |-> IF f \in S THEN StdPerms(f) ELSE {}],
     denied |-> D]

\* any set of plain entries
PlainCatalogs == {Catalog(S, [f \in S |-> "v1"], {}) : S \in SUBSET FileIds}

\* any set of entries, each plain or too large for the size column, each with
\* its grants listable or not
SteadyCatalogs ==
    UNION {{Catalog(S, prof, D) : prof \in [S -> {"v1", "big"}], D \in SUBSET S} :
           S \in SUBSET FileIds}

\* the catalogs the concurrent requests are served against
FullCatalogs == {c \in PlainCatalogs : DOMAIN c.files = FileIds}

\* the catalogs one change away from cat
RemoteEdits(cat) ==
    LET present == DOMAIN cat.files
    IN  \* an entry is deleted (or trashed, or moved out of scope)
        {[files |-> [g \in present \ {f} |-> cat.files[g]],
          perms |-> [cat.perms EXCEPT ![f] = {}],
          denied |-> cat.denied \ {f}] : f \in present}
        \cup
        \* an entry is created
        {[files |-> [g \in present \cup {f} |->
                        IF g = f THEN ProfileFile(f, "v1") ELSE cat.files[g]],
          perms |-> [cat.perms EXCEPT ![f] = StdPerms(f)],
          denied |-> cat.denied] : f \in FileIds \ present}
        \cup
        \* an entry is modified
        ({[cat EXCEPT !.files[f] = ProfileFile(f, prof)] :
            f \in present, prof \in Profiles} \ {cat})
        \cup
        \* a grant is given or revoked
        {[cat EXCEPT !.perms[f] = IF p \in @ THEN @ \ {p} ELSE @ \cup {p}] :
            f \in present, p \in PermIds}
        \cup
        \* the service account loses or gains the right to list the grants
        {[cat EXCEPT !.denied = IF f \in @ THEN @ \ {f} ELSE @ \cup {f}] :
            f \in present}

RemoteChange ==
    /\ remoteChanges < MaxRemoteChanges
    /\ remote' \in RemoteEdits(remote)
    /\ remoteChanges' = remoteChanges + 1
    /\ UNCHANGED <<eventVars, progress, syncPage, rangeCheck, dbFiles, dbPerms, scanOrder, svc, post, quiet>>

(***************************************************************************)
(* Specifications.                                                         *)
(***************************************************************************)
InitWith(catalogs, checks) ==
    /\ progress = NoProgress
    /\ syncPage = NoPage
    /\ driveSyncEmitter = [name \in EventNames |-> <<>>]
    /\ streams = [c \in Clients |-> NoStream]
    /\ rangeCheck \in checks
    /\ remote \in catalogs
    /\ remoteChanges = 0
    /\ dbFiles = NoRows
    /\ dbPerms = NoRows
    /\ scanOrder = <<>>
    /\ svc = [r \in Runs |-> NewService]
    /\ post = PostIdle
    /\ quiet = "none"

SyncStep(r) ==
    \/ CountPage(r)
    \/ FetchPage(r)
    \/ FetchFail(r)
    \/ ProcessFilesBatch(r)
    \/ SyncAllPermissionsStart(r)
    \/ SyncPermissionsOfFile(r)
    \/ CleanupRead(r)
    \/ CleanupDelete(r)

PostStep ==
    \/ PostFetch
    \/ PostFetchFail
    \/ PostCleanupPermissions
    \/ PostCleanupFiles
    \/ PostSyncDriveFiles
    \/ PostSyncDrivePermissions
    \/ PostVerify

\* the steps of the POST handler, verifyDataIntegrity query by query
PostStepByQuery ==
    \/ PostFetch
    \/ PostFetchFail
    \/ PostCleanupPermissions
    \/ PostCleanupFiles
    \/ PostSyncDriveFiles
    \/ PostSyncDrivePermissions
    \/ PostVerifyFileIds
    \/ PostVerifyOrphaned
    \/ PostVerifyAllFileIds
    \/ PostVerifyInvalid

\* Spec: requests arrive at any time, also while others are being served;
\* the catalog does not change and counting succeeds
Init == InitWith(FullCatalogs, {"client"})

Next ==
    \/ \E r \in Runs : StartSync(r) \/ SyncStep(r)
    \/ PostStart
    \/ PostStep

Spec == Init /\ [][Next]_vars

\* a request arrives when no other is being served
Quiescent == ~PostActive /\ \A r \in Runs : ~Active(r)
SeqStartSync(r) == Quiescent /\ StartSync(r)
SeqPostStart == Quiescent /\ PostStart

\* SeqSpec: one request at a time against a catalog that does not change
SeqInit == InitWith(SteadyCatalogs, RangeChecks)

SeqNext ==
    \/ \E r \in Runs : SeqStartSync(r) \/ SyncStep(r) \/ CountFail(r)
    \/ SeqPostStart
    \/ PostStep

SeqSpec == SeqInit /\ [][SeqNext]_vars

\* ChangeSpec: one request at a time, the catalog changes between requests
SeqRemoteChange == Quiescent /\ RemoteChange

ChangeInit == InitWith(PlainCatalogs, {"client"})

ChangeNext ==
    \/ \E r \in Runs : SeqStartSync(r) \/ SyncStep(r) \/ CountFail(r)
    \/ SeqPostStart
    \/ PostStep
    \/ SeqRemoteChange

ChangeSpec == ChangeInit /\ [][ChangeNext]_vars

\* ReconcileSpec: one request at a time against a catalog of one entry of
\* any shape, the store holding nothing or that entry as an earlier catalog
\* had it
EntryShapes ==
    {ApiFile("A", name, mime, parents, size, mtime, FALSE) :
        name \in {"", "doc"}, mime \in {"text/plain", FolderMime},
        parents \in {NullSeq, <<"root">>, <<"root", "x">>},
        size \in {NullNum, 5}, mtime \in {1, 2}}

EntryCatalogs ==
    {[files |-> [f \in {"A"} |-> file], perms |-> [f \in FileIds |-> {}], denied |-> {}] :
        file \in EntryShapes}

ReconcileInit ==
    /\ progress = NoProgress
    /\ syncPage = NoPage
    /\ driveSyncEmitter = [name \in EventNames |-> <<>>]
    /\ streams = [c \in Clients |-> NoStream]
    /\ rangeCheck = "client"
    /\ remote \in EntryCatalogs
    /\ remoteChanges = 0
    /\ \/ dbFiles = NoRows /\ scanOrder = <<>>
       \/ /\ \E file \in EntryShapes :
                dbFiles = PutRow(NoRows, ToDriveFileRow(ToDriveFileData(file)))
          /\ scanOrder = <<"A">>
    /\ dbPerms = NoRows
    /\ svc = [r \in Runs |-> NewService]
    /\ post = PostIdle
    /\ quiet = "none"

ReconcileNext ==
    \/ \E r \in Runs : SeqStartSync(r) \/ SyncStep(r)
    \/ SeqPostStart
    \/ PostStep

ReconcileSpec == ReconcileInit /\ [][ReconcileNext]_vars

\* ProgressSpec: the progress events of one run, over catalogs of real sizes
StartProgress ==
    /\ progress.pc = "idle"
    /\ \E size \in CatalogSizes : progress' = [NoProgress EXCEPT !.pc = "count", !.size = size]
    /\ UNCHANGED <<storeVars, eventVars, syncPage>>

ProgressInit == InitWith(FullCatalogs, {"client"})

ProgressNext ==
    \/ StartProgress
    \/ CountProgress
    \/ CountProgressFail
    \/ PageProgress
    \/ BatchProgress
    \/ PermissionProgress

ProgressSpec == ProgressInit /\ [][ProgressNext]_vars

\* FaultSpec: one start request at a time against a catalog that does not
\* change, with a database that may fail a batch transaction
FaultInit == InitWith(PlainCatalogs, {"client"})

FaultNext ==
    \E r \in Runs : SeqStartSync(r) \/ SyncStep(r) \/ CountFail(r) \/ TransactionFail(r)

FaultSpec == FaultInit /\ [][FaultNext]_vars

\* FreshSpec: one run on an empty store, against a catalog with MaxGrants
\* grant ids, each of them listed for one entry or, as the id of a grantee
\* of every entry, for all of them
MaxGrants == 5

GrantIds == {PermOrder[i] : i \in 1..MaxGrants}

FreshCatalogs ==
    UNION {{[files |-> [f \in S |-> ProfileFile(f, "v1")],
             perms |-> [f \in FileIds |->
                          IF f \in S THEN {p \in GrantIds : on[p] \in {f, "all"}} ELSE {}],
             denied |-> {}] :
               on \in [GrantIds -> S \cup {"all"}]} :
           S \in SUBSET FileIds}

FreshInit == InitWith(FreshCatalogs, {"client"})

FreshNext == StartSync("r1") \/ SyncStep("r1")

FreshSpec == FreshInit /\ [][FreshNext]_vars

\* EventSpec: one start request at a time against a small catalog that does
\* not change, with clients of the event stream that come and go
EventCatalogs == {c \in PlainCatalogs : DOMAIN c.files \subseteq {"A"}}

EventInit == InitWith(EventCatalogs, {"client"})

EventNext ==
    \/ \E r \in Runs : SeqStartSync(r) \/ SyncStep(r)
    \/ \E c \in Clients : Connect(c) \/ Disconnect(c) \/ KeepAlive(c)

EventSpec == EventInit /\ [][EventNext]_vars

\* a terminal event of run r is among the messages enqueued for client c
Received(c, r) ==
    \E i \in DOMAIN streams[c].queue :
        /\ streams[c].queue[i].type \in {"sync_complete", "sync_error"}
        /\ streams[c].queue[i].run = r

\* NotifySpec: the sync page.  startSync() of the page requests
\* ?action=start, and when the response is there connectToProgress() opens
\* the event stream; a sync_complete or sync_error message makes the page
\* close it.  Every await of the run is answered in the end and the request
\* of the page arrives in the end.
PageStartSync == StartSync("r1")

PageConnectToProgress == svc["r1"].pc # "idle" /\ Connect("c1")

PageClose == Received("c1", "r1") /\ Disconnect("c1")

NotifyInit == InitWith(PlainCatalogs, {"client"})

NotifyNext ==
    \/ PageStartSync
    \/ SyncStep("r1")
    \/ PageConnectToProgress
    \/ PageClose

NotifySpec ==
    /\ NotifyInit
    /\ [][NotifyNext]_vars
    /\ WF_vars(SyncStep("r1"))
    /\ WF_vars(PageConnectToProgress)
    /\ WF_vars(PageClose)

\* RepeatSpec: POST requests one after the other against a catalog that
\* does not change, the store empty before the first
RepeatInit == InitWith(PlainCatalogs, {"client"})

RepeatNext ==
    \/ PostRequest(MaxPosts + 1)
    \/ PostStep

RepeatSpec == RepeatInit /\ [][RepeatNext]_vars

\* PostSpec: POST requests one after the other, the catalog changing between
\* them
PostInit == InitWith(PlainCatalogs, RangeChecks)

PostNext ==
    \/ PostRequest(MaxPosts + 1)
    \/ PostStep
    \/ SeqRemoteChange

PostSpec == PostInit /\ [][PostNext]_vars

\* OverlapSpec: runs started at any time, also while another is in progress
OverlapInit == InitWith({c \in PlainCatalogs : DOMAIN c.files # {}}, {"client"})

OverlapNext == \E r \in Runs : StartSync(r) \/ SyncStep(r)

OverlapSpec == OverlapInit /\ [][OverlapNext]_vars

\* VerifySpec: a run and a POST request that arrive at any time, the
\* integrity check of the POST taken query by query
VerifyNext ==
    \/ StartSync("r1")
    \/ SyncStep("r1")
    \/ PostStart
    \/ PostStepByQuery

VerifySpec == Init /\ [][VerifyNext]_vars

\* DefaultsSpec: requests one at a time against a catalog whose entries come
\* with or without a name, A with a grant of type and role, B with a grant
\* that has neither
DefaultsCatalogs ==
    UNION {{[files |-> [f \in S |-> ApiFile(f, name[f], "text/plain", <<"root">>, 5, 1, FALSE)],
             perms |-> [f \in FileIds |-> IF f \notin S THEN {}
                                          ELSE IF f = "A" THEN {"p1"} ELSE {"p2"}],
             denied |-> {}] : name \in [S -> {"", "doc"}]} :
           S \in (SUBSET {"A", "B"}) \ {{}}}

DefaultsInit == InitWith(DefaultsCatalogs, {"client"})

DefaultsNext ==
    \/ \E r \in Runs : SeqStartSync(r) \/ SyncStep(r)
    \/ Quiescent /\ PostRequest(MaxPosts + 1)
    \/ PostStep

DefaultsSpec == DefaultsInit /\ [][DefaultsNext]_vars

\* HeartbeatSpec: one run against a small catalog, with clients of the event
\* stream that come and go and whose keep-alive intervals elapse
HeartbeatInit == InitWith(EventCatalogs, {"client"})

HeartbeatNext ==
    \/ StartSync("r1")
    \/ SyncStep("r1")
    \/ \E c \in Clients : Connect(c) \/ Disconnect(c) \/ KeepAlive(c)

HeartbeatSpec == HeartbeatInit /\ [][HeartbeatNext]_vars

\* ListenSpec: a client follows one run from its stream; the count may
\* fail and the catalog may change while the run is in progress
ListenNext ==
    \/ Connect("c1")
    \/ StartSync("r1")
    \/ SyncStep("r1")
    \/ CountFail("r1")
    \/ RemoteChange

ListenSpec == FaultInit /\ [][ListenNext]_vars

\* SyncPageSpec: the Sync page by itself, the callback of a timer that is
\* set being run in the end
SyncPageNext ==
    \/ PageStart
    \/ PageStarted
    \/ PageStartFailed
    \/ PageStop
    \/ PageMessage
    \/ PageStreamError
    \/ PageStreamOpen
    \/ PageTimer

SyncPageSpec == Init /\ [][SyncPageNext]_vars /\ WF_vars(PageTimer)

\* StopSpec: the sync page with its stop button.  stopSync() closes the
\* event stream at any point of the run; nothing is sent to the server
PageStopSync == Disconnect("c1")

StopInit == InitWith(PlainCatalogs, {"client"})

StopNext ==
    \/ PageStartSync
    \/ SyncStep("r1")
    \/ PageConnectToProgress
    \/ PageStopSync

StopSpec == StopInit /\ [][StopNext]_vars

(***************************************************************************)
(* Properties.                                                             *)
(***************************************************************************)
\* the ids a full synchronization should leave in the store
RemoteIds == ListedIds(remote)

\* run r has completed, nothing overlapped it, no request came since and the
\* catalog is the one it started on
CompletedAlone(r) ==
    /\ svc[r].pc = "complete"
    /\ quiet = r
    /\ ~svc[r].overlapped
    /\ svc[r].startChanges = remoteChanges

\* C1: a start request that arrives while a run is active is rejected, so at
\* most one run is active at any time
C1_AtMostOneActiveRun == Cardinality({r \in Runs : Active(r)}) <= 1

\* C2: when a run has completed without per-record errors on an unchanged
\* catalog, the persisted entries are exactly the entries of the catalog
C2_PrunedToRemote ==
    \A r \in Runs :
        (CompletedAlone(r) /\ svc[r].errors = 0) => DOMAIN dbFiles = RemoteIds

\* C3: a run deletes, and reaches its cleanup, only after its fetch loop has
\* retrieved every page; a run that ended on a failed page fetch has deleted
\* nothing
C3_NoDeleteBeforeFullFetch ==
    \A r \in Runs :
        /\ svc[r].pc \in {"cleanup", "cleanupDelete"} => svc[r].fetchedAll
        /\ svc[r].deleted > 0 => svc[r].fetchedAll
        /\ svc[r].pc = "error" => svc[r].deleted = 0

\* C3 witness: a run that fetched every page has deleted grants in its cleanup
C3_DeletedAfterFullFetch ==
    \E r \in Runs : svc[r].pc = "complete" /\ svc[r].fetchedAll /\ svc[r].deleted > 0

\* C4: the bulk synchronization never deletes a persisted entry that is still
\* listed by the remote catalog
C4_PostKeepsListedEntries ==
    (post.startChanges = remoteChanges) => post.lostLive = {}

\* C5: every persisted grant references a persisted entry, in every state,
\* whichever runs and bulk synchronizations overlap
C5_ReferentialIntegrity ==
    \A p \in DOMAIN dbPerms : dbPerms[p].fileId \in DOMAIN dbFiles

\* C5 witness: an entry has been deleted by a bulk synchronization that ran
\* together with a run, and grants are persisted
C5_EntryDeletedWhileGrantsKept ==
    /\ post.deletedFiles # {}
    /\ post.overlapped
    /\ DOMAIN dbPerms # {}
    /\ \E r \in Runs : svc[r].errors > svc[r].fileErrors + Cardinality(svc[r].listFailed)

\* run r started right after run svc[r].after completed, on the same catalog
RunTwice(r) ==
    /\ svc[r].after \in Runs
    /\ svc[r].startChanges = svc[svc[r].after].startChanges
    /\ svc[r].startChanges = remoteChanges

\* the entries whose grants are listed under more than one persisted entry
\* that lists its grants
SharedGrants ==
    {p \in PermIds :
        Cardinality({f \in (DOMAIN dbFiles) \ remote.denied : p \in remote.perms[f]}) >= 2}

RejectedEntries(r) ==
    {id \in DOMAIN svc[r].outcome : FileWriteFails(svc[r].outcome[id].data)}

\* the persistence phase of run r has ended and the tables are as r left them
AfterPersistence(r) ==
    /\ svc[r].fetchedAll
    /\ ~svc[r].overlapped
    /\ \/ svc[r].pc \in {"perms", "permsLoop", "cleanup", "cleanupDelete"}
       \/ svc[r].pc = "complete" /\ quiet = r

\* C9: when the write of an entry fails, the error counter grows by one for
\* that entry, the entry is not counted as processed, every other entry of
\* the run is counted and persisted, and the run does not end in error
C9_FailureIsolated ==
    \A r \in Runs :
        /\ AfterPersistence(r) =>
              /\ svc[r].fileErrors = Cardinality(RejectedEntries(r))
              /\ svc[r].processedFiles =
                    Cardinality(DOMAIN svc[r].outcome) - Cardinality(RejectedEntries(r))
              /\ \A id \in (DOMAIN svc[r].outcome) \ RejectedEntries(r) :
                    /\ id \in DOMAIN dbFiles
                    /\ dbFiles[id] = svc[r].outcome[id].data
        /\ svc[r].pc = "error" => ~svc[r].fetchedAll

\* the persisted entries whose grants cannot be listed
Unlistable == {f \in DOMAIN dbFiles : ListFails(remote, f)}

\* the grant loop of run r has ended and the tables are as r left them
AfterGrants(r) ==
    /\ svc[r].fetchedAll
    /\ ~svc[r].overlapped
    /\ svc[r].startChanges = remoteChanges
    /\ \/ svc[r].pc \in {"cleanup", "cleanupDelete"}
       \/ svc[r].pc = "complete" /\ quiet = r

\* C10: when listing the grants of k of the persisted entries throws, the
\* run goes on to its end, its error counter has grown by k in the grant
\* phase, the run has put no grant under those k entries, and every grant of
\* the other entries is persisted under an entry that lists it
C10_GrantFailureIsolated ==
    \A r \in Runs :
        /\ AfterGrants(r) =>
              /\ svc[r].listFailed = Unlistable
              /\ svc[r].errors = svc[r].fileErrors + Cardinality(Unlistable)
              /\ \A g \in svc[r].granted : g[2] \notin Unlistable
              /\ \A f \in (DOMAIN dbFiles) \ Unlistable :
                    \A p \in remote.perms[f] :
                        \E g \in svc[r].granted :
                            /\ g[1] = p
                            /\ p \in remote.perms[g[2]]
                            /\ p \in DOMAIN dbPerms
                            /\ dbPerms[p] = ToDrivePermissionRow(PermOf(p), g[2])
        /\ svc[r].pc = "error" => ~svc[r].fetchedAll

\* C10 witness: a run has completed although a listing failed, and it has
\* persisted the grants of another entry
C10_CompletedDespiteFailedListing ==
    \E r \in Runs :
        /\ AfterGrants(r)
        /\ svc[r].pc = "complete"
        /\ svc[r].listFailed # {}
        /\ svc[r].processedPermissions >= 1
        /\ DOMAIN dbPerms # {}

\* C6: within one run no progress event carries a lower percent than an
\* earlier event of the run
C6_PercentNeverDrops == ~progress.dropped

\* the fields of an entry the reconciler tracks
TrackedFields ==
    {"name", "mimeType", "parents", "size", "modifiedTime", "createdTime",
     "isFolder", "trashed"}

\* the tracked fields in which the persisted record and the incoming entry differ
Differing(o) ==
    IF o.existing = <<>> THEN {}
    ELSE {k \in TrackedFields : o.existing[1][k] # o.data[k]}

\* C8: an incoming entry is created when no record has its id, updated when a
\* record has its id and a tracked field differs, whichever field it is, and
\* left alone when no tracked field differs; when the persistence has ended
\* without a rejected write, the store holds the incoming entry after a
\* create or an update and the old record after a skip
C8_DecisionMatchesDifference ==
    \A r \in Runs :
        \A id \in DOMAIN svc[r].outcome :
            LET o == svc[r].outcome[id]
            IN  ~o.failed =>
                  /\ o.decision \in {"create", "update", "skip"}
                  /\ o.decision = "create" <=> o.existing = <<>>
                  /\ o.decision = "update" <=> (o.existing # <<>> /\ Differing(o) # {})
                  /\ o.decision = "skip" <=> (o.existing # <<>> /\ Differing(o) = {})
                  /\ (AfterPersistence(r) /\ svc[r].fileErrors = 0) =>
                        /\ id \in DOMAIN dbFiles
                        /\ dbFiles[id] = IF o.decision = "skip" THEN o.existing[1] ELSE o.data

\* C8 witness: an entry that differed from its record in modifiedTime alone
\* has been updated
C8_UpdatedForModifiedTimeAlone ==
    \E r \in Runs :
        /\ "A" \in DOMAIN svc[r].outcome
        /\ svc[r].outcome["A"].decision = "update"
        /\ Differing(svc[r].outcome["A"]) = {"modifiedTime"}
        /\ dbFiles["A"] = svc[r].outcome["A"].data

\* the failures the fetch phase hands to the catch of startSync
FatalFailures == {"fetch", "transaction"}

\* C11: when a page fetch of the fetch phase or a batch transaction as a whole
\* fails, the failing step persists nothing and ends the run as errored with
\* exactly one terminal event broadcast, a sync_error carrying the message of
\* the failure, and no sync_complete; the run has synchronized no grant and
\* pruned nothing, and from then on nothing of the run changes any more: no
\* further entry is written, no later phase is executed.
C11_FatalErrorStopsRun ==
    [][\A r \in Runs :
          svc'[r].failure \in FatalFailures =>
              /\ svc'[r].pc = "error"
              /\ svc'[r].terminal =
                    <<[Message("sync_error", r) EXCEPT
                          !.error = ErrorMessages[svc'[r].failure]]>>
              /\ svc'[r].granted = {}
              /\ svc'[r].listFailed = {}
              /\ svc'[r].processedPermissions = 0
              /\ svc'[r].deleted = 0
              /\ "SyncingGrants" \notin {svc'[r].phases[i] : i \in DOMAIN svc'[r].phases}
              /\ svc'[r].failure = "fetch" => svc'[r].writes = 0 /\ svc'[r].processedFiles = 0
              /\ IF svc[r].failure \in FatalFailures
                 THEN svc'[r] = svc[r]
                 ELSE /\ svc'[r].writes = svc[r].writes
                      /\ dbFiles' = dbFiles
                      /\ dbPerms' = dbPerms]_vars

\* C11 witness: a batch transaction has failed after an earlier batch of the
\* run was committed, and a later request has been served since.
C11_FailedAfterCommittedBatch ==
    /\ svc["r1"].failure = "transaction"
    /\ svc["r1"].writes > 0
    /\ svc["r1"].pc = "error"
    /\ svc["r2"].pc = "complete"

\* C12: the caller that has started a run with ?action=start and opens the
\* event stream after the response receives in the end the sync_complete or
\* the sync_error event of that run.
C12_TerminalEventReceived ==
    (svc["r1"].pc # "idle") ~> Received("c1", "r1")

\* C13: a listener that fails on a published event does not reach the run:
\* against a catalog whose entries and grants are all listed and persisted
\* without error, no run counts an error and no run is ended by what a
\* listener has thrown.
C13_SubscriberFailureIsolated ==
    \A r \in Runs : svc[r].errors = 0 /\ svc[r].failure # "broadcast"

\* C14: every published event reaches every listener registered when it is
\* published, also when the listener of another client fails on it: no
\* client with an open stream has missed an event published since it
\* connected.
C14_DeliveredToEveryListener ==
    \A c \in Clients : streams[c].state = "open" => ~streams[c].missed

\* the ids of the grants the remote catalog lists for the persisted entries
ListedGrantIds == UNION {remote.perms[f] : f \in DOMAIN dbFiles \cap DOMAIN remote.files}

\* the POST request has been answered with success, nothing overlapped it, no
\* request is being served and the catalog is the one it started on
PostCompletedAlone ==
    /\ post.pc = "idle"
    /\ post.status = 200
    /\ ~post.overlapped
    /\ post.startChanges = remoteChanges
    /\ Quiescent

\* C15: after a run that has completed without error on an unchanged
\* catalog, and after a POST synchronization answered with success, every
\* persisted grant is one the grant listing of the catalog returns: a grant
\* revoked upstream is no longer persisted.
C15_RevokedGrantsPruned ==
    /\ \A r \in Runs :
          (CompletedAlone(r) /\ svc[r].errors = 0) => DOMAIN dbPerms \subseteq ListedGrantIds
    /\ (PostCompletedAlone /\ post.filesResult.errors = 0 /\ post.permissionsResult.errors = 0)
          => DOMAIN dbPerms \subseteq ListedGrantIds

\* the phases of a run in their order
PhaseOrder == <<"Counting", "Fetching", "Persisting", "SyncingGrants", "Pruning", "Complete">>

\* the phases entered are the first ones of the order, each once, with
\* Errored as the last one if the run has failed
InPhaseOrder(phases) ==
    LET n == Len(phases)
        run == IF n > 0 /\ phases[n] = "Errored" THEN SubSeq(phases, 1, n - 1) ELSE phases
    IN  /\ Len(run) <= Len(PhaseOrder)
        /\ run = SubSeq(PhaseOrder, 1, Len(run))
        /\ n > 0 /\ phases[n] = "Errored" => Len(run) < Len(PhaseOrder)

\* C16: the phases of a run occur in the order Counting, Fetching,
\* Persisting, SyncingGrants, Pruning, Complete, none skipped or revisited
\* (a failed run ends in Errored instead): the run has processed an entry
\* only when its last page was fetched, it is listing grants only when its
\* last batch is done, it is pruning only when the grants of its last file
\* are done, and it has broadcast sync_complete only when it has pruned.
C16_PhaseOrder ==
    \A r \in Runs :
        LET s == svc[r]
            persisted == s.batchIndex * batchSize >= Len(s.allFiles)
        IN  /\ InPhaseOrder(s.phases)
            /\ Active(r) => s.phases[Len(s.phases)] = Phase(s.pc)
            /\ (s.processedFiles > 0 \/ s.fileErrors > 0 \/ s.writes > 0) => s.fetchedAll
            /\ s.pc = "persist" => s.fetchedAll /\ ~persisted
            /\ s.pc \in {"perms", "permsLoop", "cleanup", "cleanupDelete"} =>
                  s.fetchedAll /\ persisted
            /\ (s.granted # {} \/ s.listFailed # {} \/ s.processedPermissions > 0) =>
                  "SyncingGrants" \in {s.phases[i] : i \in DOMAIN s.phases}
            /\ s.pc = "perms" => s.granted = {} /\ s.listFailed = {}
            /\ s.pc = "permsLoop" => s.permIndex < Len(s.permFiles)
            /\ s.pc \in {"cleanup", "cleanupDelete"} => s.permIndex = Len(s.permFiles)
            /\ s.deleted > 0 => s.pc \in {"complete", "error"} /\ s.terminal # <<>>
            /\ (s.terminal # <<>> /\ s.terminal[1].type = "sync_complete") =>
                  /\ s.phases = PhaseOrder \/ s.phases = SubSeq(PhaseOrder, 1, 5) \o <<"Errored">>
                  /\ s.terminal[1].stats = GetSyncStats(s)

\* C16 witness: a run over several pages, batches and files has gone
\* through all the phases and has broadcast sync_complete.
C16_AllPhasesDone ==
    /\ svc["r1"].phases = PhaseOrder
    /\ svc["r1"].processedFiles = 3
    /\ Cardinality(svc["r1"].granted) >= 2
    /\ Len(svc["r1"].terminal) = 1
    /\ svc["r1"].terminal[1].type = "sync_complete"

\* no grant id is listed for two entries of the catalog
DistinctGrants(cat) ==
    \A f, g \in DOMAIN cat.files : f # g => cat.perms[f] \cap cat.perms[g] = {}

\* the grants of the catalog as <<id, fileId>>
CatalogGrants(cat) == {<<p, f>> : p \in GrantIds, f \in DOMAIN cat.files} \cap
                      {pf \in GrantIds \X FileIds : pf[1] \in cat.perms[pf[2]]}

\* C17: a run on an empty store, against a catalog of n entries carrying m
\* grants with pairwise distinct ids, that has completed ends with
\* processedFiles = n, processedPermissions = m and errors = 0, reports
\* these numbers in the stats of sync_complete, and leaves in the store
\* exactly the n entries and the m grants of the catalog.
C17_FreshSync ==
    LET s == svc["r1"]
        n == Cardinality(DOMAIN remote.files)
        m == Cardinality(CatalogGrants(remote))
    IN  (s.pc = "complete" /\ DistinctGrants(remote)) =>
            /\ s.processedFiles = n
            /\ s.processedPermissions = m
            /\ s.errors = 0
            /\ s.terminal[1].stats =
                  [totalFiles |-> n, processedFiles |-> n, totalPermissions |-> m,
                   processedPermissions |-> m, errors |-> 0]
            /\ DOMAIN dbFiles = DOMAIN remote.files
            /\ \A f \in DOMAIN dbFiles :
                  dbFiles[f] = ToDriveFileRow(ToDriveFileData(remote.files[f]))
            /\ {<<p, dbPerms[p].fileId>> : p \in DOMAIN dbPerms} = CatalogGrants(remote)
            /\ \A p \in DOMAIN dbPerms :
                  dbPerms[p] = ToDrivePermissionRow(PermOf(p), dbPerms[p].fileId)

\* C17 witness: the run has completed on a catalog of 3 entries carrying 5
\* grants with distinct ids, and the store holds 5 grants.
C17_ThreeEntriesFiveGrants ==
    /\ svc["r1"].pc = "complete"
    /\ DistinctGrants(remote)
    /\ Cardinality(DOMAIN remote.files) = 3
    /\ Cardinality(CatalogGrants(remote)) = 5
    /\ Cardinality(DOMAIN dbPerms) = 5

\* C18: a run started through ?action=start emits sync_start to the clients
\* listening when it starts, before its first progress event: such a client
\* has the sync_start message of the run in its stream, ahead of every
\* other message of the run.
C18_SyncStartBroadcast ==
    \A r \in Runs : \A c \in svc[r].audience :
        \E j \in DOMAIN streams[c].queue :
            /\ streams[c].queue[j].type = "sync_start"
            /\ streams[c].queue[j].run = r
            /\ \A i \in 1..(j - 1) : streams[c].queue[i].run # r

\* C19: after any sequence of connects and disconnects the listeners
\* registered on the emitter, for each of the four events, are those of the
\* clients connected now, and only these clients have a keep-alive timer.
C19_ListenersOfConnectedClients ==
    LET connected == {c \in Clients : streams[c].state = "open"}
    IN  /\ \A name \in EventNames :
              {driveSyncEmitter[name][i] : i \in DOMAIN driveSyncEmitter[name]} = connected
        /\ {c \in Clients : streams[c].keepAlive} = connected

\* C20: every progress event of a run carries a percent that is a number
\* between 0 and 100, whatever the size of the catalog, the empty catalog
\* and a failed count included.
C20_PercentDefinedInRange == ~progress.invalid

\* C21: a client that stops at any point of a run ends its own subscription
\* and nothing else: the run is not ended by the stop and counts no error
\* for it, and every entry the run has counted as processed is persisted,
\* no batch being left partially applied.
C21_StopEndsSubscriptionOnly ==
    LET s == svc["r1"]
    IN  /\ s.failure # "broadcast"
        /\ s.errors = 0
        /\ \A f \in DOMAIN s.outcome : ~s.outcome[f].failed => f \in DOMAIN dbFiles

\* the positions of the ping messages in the stream of client c
Pings(c) == {i \in DOMAIN streams[c].queue : streams[c].queue[i].type = "ping"}

\* C22: for as long as a client stays connected, every elapse of its
\* keep-alive interval delivers a ping to it, whether or not a run is in
\* progress or emits events: a connected client has received as many pings
\* as intervals have elapsed since it connected, and its timer is set.
C22_PingAtEveryInterval ==
    \A c \in Clients :
        streams[c].state = "open" =>
            /\ streams[c].keepAlive
            /\ Cardinality(Pings(c)) = streams[c].pings

\* C22 witness: one client has received a ping behind a progress event of a
\* run that is still in progress, another one a ping and no event of a run.
C22_PingedDuringAndWithoutRun ==
    /\ Active("r1")
    /\ \E i \in Pings("c1") : \E j \in 1..(i - 1) : streams["c1"].queue[j].run = "r1"
    /\ streams["c1"].state = "open"
    /\ streams["c2"].state = "open"
    /\ Pings("c2") # {}
    /\ \A i \in DOMAIN streams["c2"].queue : streams["c2"].queue[i].run = "none"

\* C23: a POST that follows a successful POST against the same catalog
\* writes nothing: it reports no entry and no grant as inserted or updated,
\* also when the catalog returns one permission id for several entries.
C23_SecondPostWritesNothing ==
    (post.pc = "idle" /\ post.status = 200 /\ post.previous = 200) =>
        /\ post.filesResult.upserted = 0
        /\ post.filesResult.updated = 0
        /\ post.permissionsResult.upserted = 0
        /\ post.permissionsResult.updated = 0

\* the steps of the POST handler, each with the one that follows it
PostOrder ==
    {<<"idle", "fetch">>, <<"fetch", "cleanup">>, <<"fetch", "idle">>,
     <<"cleanup", "cleanupFiles">>, <<"cleanupFiles", "syncFiles">>,
     <<"syncFiles", "syncPermissions">>, <<"syncPermissions", "verify">>,
     <<"verify", "idle">>}

\* C24: the POST synchronization fetches, cleans up, synchronizes the
\* entries, then the grants, then checks the integrity, in that order; a
\* failed fetch is answered with an error and nothing is cleaned up or
\* written; and when a POST is answered with success and no record of it
\* failed, the persisted entries are exactly the fetched ones and every
\* persisted grant references one of them.
C24_PostStepsAndResult ==
    [][/\ post'.pc # post.pc => <<post.pc, post'.pc>> \in PostOrder
       /\ (post.pc = "fetch" /\ post'.pc = "idle") =>
              /\ post'.status = 500
              /\ post'.files = <<>>
       /\ (dbFiles' # dbFiles \/ dbPerms' # dbPerms) =>
              /\ post.pc \in {"cleanup", "cleanupFiles", "syncFiles", "syncPermissions"}
              /\ post.files = ListAllFiles(remote)
       /\ (/\ post.pc = "verify"
           /\ post'.pc = "idle"
           /\ post'.status = 200
           /\ post'.filesResult.errors = 0
           /\ post'.permissionsResult.errors = 0) =>
              /\ DOMAIN dbFiles' = SeqIds(post'.files)
              /\ \A p \in DOMAIN dbPerms' : dbPerms'[p].fileId \in SeqIds(post'.files)]_vars

\* C24 witness: a POST without a failed record has been answered with
\* success after it deleted a persisted entry the fetch no longer returned
\* and persisted another one with its grants.
C24_PostReplacedEntries ==
    /\ post.pc = "idle"
    /\ post.status = 200
    /\ post.filesResult.errors = 0
    /\ post.permissionsResult.errors = 0
    /\ post.deletedFiles # {}
    /\ post.filesResult.upserted > 0
    /\ post.permissionsResult.upserted > 0
    /\ DOMAIN dbFiles = SeqIds(post.files)

\* C25: every POST answered with success reports an integrity check without
\* findings, orphanedPermissions = 0 and invalidFileReferences = 0 (so
\* isConsistent = true), also when a run writes to the store meanwhile.
C25_IntegrityWithoutFindings ==
    (post.pc = "idle" /\ post.status = 200) =>
        /\ post.orphanedPermissions = 0
        /\ post.invalidFileReferences = 0

\* C26: every progress event carries a percent inside the band of the phase
\* that emitted it, counting 0 to 5, page fetch 5 to 60, persistence of the
\* entries 60 to 95, synchronization of the grants 95 to 100, whatever the
\* size of the catalog and the count estimate.
C26_PercentInPhaseBand == ~progress.outOfBand

RECURSIVE Concat(_)
\* the sequences of a sequence, one behind the other
Concat(seqs) == IF Len(seqs) = 0 THEN <<>> ELSE Head(seqs) \o Concat(Tail(seqs))

\* C27: the fetched entries are persisted in consecutive batches of at most
\* batchSize entries, one transaction each, run one after the other in the
\* order of the fetch: the batches run so far are, one behind the other, the
\* first entries fetched, none left out and none twice, and once the run has
\* gone on to the grants they are all the entries fetched.
C27_ConsecutiveBatches ==
    \A r \in Runs :
        LET batches == svc[r].batches
            done == Concat(batches)
            ids == [i \in DOMAIN svc[r].allFiles |-> svc[r].allFiles[i].id]
        IN  /\ \A b \in DOMAIN batches :
                   /\ Len(batches[b]) >= 1
                   /\ Len(batches[b]) <= batchSize
                   /\ b < Len(batches) => Len(batches[b]) = batchSize
            /\ Active(r) =>
                   /\ Len(batches) = svc[r].batchIndex
                   /\ Len(done) <= Len(ids)
                   /\ done = SubSeq(ids, 1, Len(done))
                   /\ (\E p \in DOMAIN svc[r].phases : svc[r].phases[p] = "SyncingGrants") =>
                          done = ids

\* C27 witness: a run has persisted its entries in two batches, a full one
\* and the rest, and has gone on to the grants.
C27_TwoBatchesRun ==
    \E r \in Runs :
        /\ Len(svc[r].batches) = 2
        /\ Len(svc[r].batches[1]) = batchSize
        /\ Len(svc[r].batches[2]) < batchSize
        /\ svc[r].pc = "permsLoop"
        /\ DOMAIN dbFiles = {svc[r].allFiles[i].id : i \in DOMAIN svc[r].allFiles}

\* C28: the persistence phase reports an entry as done, and counts it in
\* processedFiles, only once the transaction of its batch has committed: a
\* run never counts more entries as processed than it has persisted.
C28_ProcessedAfterCommit ==
    \A r \in Runs :
        svc[r].processedFiles <= Cardinality((DOMAIN svc[r].outcome) \cap (DOMAIN dbFiles))

\* C29: every run begins with all its counters at zero; a step that changes
\* the counters of a run is a step of that run and changes the counters of
\* no other run; and a run counts as processed the entries it has written
\* or found unchanged itself, also when runs overlap.
C29_CountersOwned ==
    [][\A r \in Runs :
          /\ (svc[r].pc = "idle" /\ svc'[r].pc # "idle") =>
                 GetSyncStats(svc'[r]) = NoStats
          /\ GetSyncStats(svc'[r]) # GetSyncStats(svc[r]) =>
                 /\ Active(r)
                 /\ \A o \in Runs \ {r} : GetSyncStats(svc'[o]) = GetSyncStats(svc[o])
          /\ svc'[r].processedFiles =
                 Cardinality({f \in DOMAIN svc'[r].outcome : ~svc'[r].outcome[f].failed})]_vars

\* C29 witness: two runs that overlapped have both completed, each with
\* counters of its own that are not zero.
C29_OverlappingRunsCompleted ==
    \A r \in Runs :
        /\ svc[r].pc = "complete"
        /\ svc[r].overlapped
        /\ svc[r].processedFiles > 0
        /\ svc[r].processedPermissions > 0

\* C30: when startSync ends with a fatal error, the error event it
\* broadcasts carries the counters of the run as they stand at the abort.
C30_CountersWithErrorEvent ==
    \A r \in Runs :
        svc[r].pc = "error" =>
            \E i \in DOMAIN svc[r].terminal :
                /\ svc[r].terminal[i].type = "sync_error"
                /\ svc[r].terminal[i].stats = GetSyncStats(svc[r])

\* the values a count may return
Estimates == 0..(Cardinality(FileIds) + 1)

\* the service with what the count has left in it taken out
WithoutEstimate(s) == [s EXCEPT !.totalFiles = 0, !.totalCount = 0]

C32_DefaultsBeforeComparison ==
    /\ \A f \in DOMAIN dbFiles :
           /\ dbFiles[f].name # ""
           /\ (f \in DOMAIN remote.files /\ remote.files[f].name = "") =>
                  dbFiles[f].name = "Untitled"
    /\ \A p \in DOMAIN dbPerms :
           /\ dbPerms[p].type = (IF PermOf(p).type = "" THEN "user" ELSE PermOf(p).type)
           /\ dbPerms[p].role = (IF PermOf(p).role = "" THEN "reader" ELSE PermOf(p).role)
    /\ \A r \in Runs :
           RunTwice(r) =>
               /\ svc[r].writes = 0
               /\ \A f \in DOMAIN svc[r].outcome : svc[r].outcome[f].decision = "skip"
    /\ (/\ post.pc = "idle"
        /\ post.status = 200
        /\ post.previous = 200
        /\ \A r \in Runs : svc[r].pc = "idle") =>
           /\ post.filesResult.upserted + post.filesResult.updated = 0
           /\ post.permissionsResult.upserted + post.permissionsResult.updated = 0

\* C32 witness: the entry B has no name and its grant neither type nor role;
\* the second of two runs has completed with both skipped, and so has the
\* second of two POSTs.
C32_SkippedWithDefaults ==
    /\ "B" \in DOMAIN remote.files
    /\ remote.files["B"].name = ""
    /\ "B" \in DOMAIN dbFiles
    /\ "p2" \in DOMAIN dbPerms
    /\ \/ \E r \in Runs :
              /\ RunTwice(r)
              /\ svc[r].pc = "complete"
              /\ "B" \in DOMAIN svc[r].outcome
              /\ svc[r].processedPermissions >= 1
              /\ post.requests = 0
       \/ /\ post.pc = "idle"
          /\ post.status = 200
          /\ post.previous = 200
          /\ post.filesResult.skipped >= 1
          /\ post.permissionsResult.skipped >= 1
          /\ \A r \in Runs : svc[r].pc = "idle"

\* C33: the phase the Sync page displays.  After a file_processed event of
\* the persistence of the entries the currentPhase of the page is
\* 'processing', and it is 'permissions' only after an event of the
\* synchronization of the grants.
C33_PhaseShownMatchesRun ==
    /\ progress.lastPhase = "persist" => progress.currentPhase = "processing"
    /\ progress.currentPhase = "permissions" => progress.lastPhase = "perms"

\* C34: the reconnection of the Sync syncPage.  An error of the stream while
\* isSyncing sets a timer, and while isSyncing stays true a new stream is
\* opened in the end; the handling of a terminal event leaves isSyncing
\* false and the EventSource closed and dropped, and from then on the timer
\* callback opens no stream, the only stream opened before Start Sync is
\* clicked again being that of a start request still without its answer.
C34_ReconnectWhileSyncingOnly ==
    /\ [](syncPage.awaited => syncPage.timers > 0)
    /\ (syncPage.awaited ~> ~syncPage.awaited)
    /\ [][syncPage'.settled /\ ~syncPage.settled =>
             ~syncPage'.isSyncing /\ syncPage'.eventSource = "null"]_vars
    /\ [](syncPage.settled => ~syncPage.isSyncing)
    /\ [][syncPage.settled /\ syncPage'.settled /\ syncPage'.opened # syncPage.opened =>
             syncPage'.starting < syncPage.starting]_vars
    /\ [][syncPage'.reconnects # syncPage.reconnects =>
             syncPage.isSyncing /\ ~syncPage.settled /\ syncPage'.eventSource = "open"]_vars

\* C34 witness: the stream erred twice during a sync; the callback of the
\* first timer opened a new stream, a terminal event was handled on it and
\* the callback of the second timer, run after that, opened none.
C34_TimerAfterTerminal ==
    /\ syncPage.settled
    /\ syncPage.errors = 2
    /\ syncPage.reconnects = 1
    /\ syncPage.timers = 0
    /\ syncPage.starts = 1

\* C35: the terminal event of a run is one.  A run broadcasts sync_complete
\* or sync_error, never both, a run that has ended has broadcast exactly one
\* of them, and after it the run broadcasts nothing and writes nothing.
C35_OneTerminalEvent ==
    \A r \in Runs :
        /\ Len(svc[r].terminal) <= 1
        /\ svc[r].pc \in {"complete", "error"} => Len(svc[r].terminal) = 1
        /\ Len(svc[r].terminal) = 1 => ~Active(r)

\* C36: every fetched entry is accounted for once.  When the persistence of
\* the entries has ended, the entries counted as processed and the errors
\* counted add up to the entries fetched, and no entry that was counted as
\* processed was counted as an error too.
C36_EntriesAccountedOnce ==
    \A r \in Runs :
        svc[r].pc = "perms" =>
            /\ svc[r].processedFiles + svc[r].fileErrors = Len(svc[r].allFiles)
            /\ svc[r].processedFiles <=
                   Cardinality({f \in DOMAIN svc[r].outcome : ~svc[r].outcome[f].failed})

\* C37: in every progress event done is at most total, also when the
\* catalog has changed between the count and the fetch and when the count
\* has failed and returned 0.
C37_DoneAtMostTotal ==
    \A c \in Clients :
        \A i \in DOMAIN streams[c].queue :
            streams[c].queue[i].type \in {"page_loaded", "file_processed"} =>
                streams[c].queue[i].done <= streams[c].queue[i].total

\* the grant ids run r has put or found in the store
GrantedIds(r) == {g[1] : g \in svc[r].granted}

\* the first entry of the loop of run r that lists grant p
FirstListing(r, p) ==
    LET lists(i) == /\ ~ListFails(remote, svc[r].permFiles[i])
                    /\ p \in remote.perms[svc[r].permFiles[i]]
        first == CHOOSE i \in DOMAIN svc[r].permFiles :
                     lists(i) /\ \A j \in 1..(i - 1) : ~lists(j)
    IN  svc[r].permFiles[first]

\* C38: the grants are de-duplicated within a run.  A run puts a grant id in
\* the store at most once, under the first entry of its loop that lists it,
\* and that entry is the fileId persisted; processedPermissions never
\* exceeds totalPermissions; and a run that has completed without an error
\* has counted as processed the distinct grant ids listed.
C38_GrantOncePerRun ==
    \A r \in Runs :
        /\ svc[r].processedPermissions <= svc[r].totalPermissions
        /\ Cardinality(svc[r].granted) = Cardinality(GrantedIds(r))
        /\ svc[r].pc \in {"permsLoop", "cleanup", "cleanupDelete"} =>
               \A g \in svc[r].granted :
                   /\ g[2] = FirstListing(r, g[1])
                   /\ g[1] \in DOMAIN dbPerms
                   /\ dbPerms[g[1]].fileId = g[2]
        /\ (svc[r].pc = "complete" /\ svc[r].errors = 0 /\ quiet = r) =>
               /\ svc[r].processedPermissions =
                      Cardinality(UNION {remote.perms[f] : f \in DOMAIN dbFiles})
               /\ GrantedIds(r) = UNION {remote.perms[f] : f \in DOMAIN dbFiles}
               /\ \A g \in svc[r].granted : dbPerms[g[1]].fileId = g[2]

\* C38 witness: a run has completed without an error over three entries that
\* list four grants between them, two of them distinct.
C38_SharedGrantCountedOnce ==
    \E r \in Runs :
        /\ svc[r].pc = "complete"
        /\ svc[r].errors = 0
        /\ quiet = r
        /\ SharedGrants # {}
        /\ svc[r].totalPermissions = 4
        /\ svc[r].processedPermissions = 2
        /\ Cardinality(svc[r].granted) = 2
====
